---- MODULE Spec2Model ----
(***************************************************************************)
(* A model of the 404-ZOO on-chain program (src/404-contract/src/lib.rs):  *)
(* the card-draw engine, the player ledger and the marketplace escrow.     *)
(*                                                                         *)
(* Every instruction is one atomic transaction.  An instruction is         *)
(* modelled in three layers, as the program is written:                    *)
(*   - <Name>Accounts : the checks and the `init` / `init_if_needed`       *)
(*     creations of its #[derive(Accounts)] struct, run before the handler;*)
(*   - <name>         : the handler body, statement by statement, on the   *)
(*     in-memory accounts; it returns the error code and the accounts as   *)
(*     they stand in memory at the return (partial updates included);      *)
(*   - <Name>Tx       : accounts, handler, then the `close` exit step.     *)
(* Commit keeps the in-memory accounts only when the result is Ok.         *)
(*                                                                         *)
(* Not modelled: rent and the lamports paid for new accounts, the bump     *)
(* fields, Listing.created_at, and token instructions sent to the token    *)
(* program outside this program.  A token account of a wallet is its       *)
(* associated token account, keyed <<wallet, mint>>.                       *)
(***************************************************************************)
EXTENDS Integers, Sequences, FiniteSets, TLC

VARIABLES
    game_config,            \* seed "game_config"            -> GameConfig
    card_template,          \* card_type_id                  -> CardTemplate
    rarity_pool,            \* rarity discriminant           -> RarityPool
    player_profile,         \* wallet                        -> PlayerProfile
    player_deck,            \* <<wallet, deck_index>>        -> PlayerDeck
    card_instance,          \* card mint                     -> CardInstance
    listing,                \* card mint                     -> Listing
    token_account,          \* <<wallet, mint>>              -> token amount
    escrow_token_account,   \* card mint                     -> token amount
    lamports,               \* wallet or treasury            -> SOL balance
    last,                   \* the last transaction submitted and its result
    listing_state,          \* history: lifecycle state of each card's listing
    sales                   \* history: number of successful purchases or matches

accounts == <<game_config, card_template, rarity_pool, player_profile,
              player_deck, card_instance, listing, token_account, escrow_token_account,
              lamports>>
vars == <<game_config, card_template, rarity_pool, player_profile,
          player_deck, card_instance, listing, token_account, escrow_token_account,
          lamports, last, listing_state, sales>>

----------------------------------------------------------------------------
(* Integer widths.  TLC's integers are 32-bit, so the 64-bit and 32-bit    *)
(* fields are modelled with narrower widths; all arithmetic below is       *)
(* written against these maxima and never forms a value above them.        *)
U64Max == 1073741823
U32Max == 32767
U16Max == 65535

(* Option<uN>: [some |-> FALSE] is None *)
Some(v) == [some |-> TRUE, val |-> v]
NoneVal == [some |-> FALSE, val |-> 0]

(* variant: the sum wraps at the width *)
checked_add_wrapping(a, b, max) == Some((a + b) % (max + 1))
checked_add(a, b, max) == IF a > max - b THEN NoneVal ELSE Some(a + b)
checked_sub(a, b) == IF a < b THEN NoneVal ELSE Some(a - b)
checked_mul(a, b, max) ==
    IF b # 0 /\ a > max \div b THEN NoneVal ELSE Some(a * b)
checked_div(a, b) == IF b = 0 THEN NoneVal ELSE Some(a \div b)
saturating_sub(a, b) == IF a < b THEN 0 ELSE a - b

----------------------------------------------------------------------------
(* Keyed account storage: a collection is a function whose domain is the   *)
(* set of keys (addresses) that hold an account.                           *)
NoAccounts == [k \in {} |-> 0]
Has(f, k) == k \in DOMAIN f
Put(f, k, v) == [x \in (DOMAIN f) \cup {k} |-> IF x = k THEN v ELSE f[x]]
Del(f, k) == [x \in (DOMAIN f) \ {k} |-> f[x]]

(* Pubkey::default(), the content of a freshly allocated account *)
DefaultPubkey == "11111111111111111111111111111111"

ConfigKey == "game_config"
Treasury == "treasury"

(* The accounts as one value: what a transaction loads, mutates in memory *)
(* and commits.                                                            *)
Store ==
    [game_config |-> game_config, card_template |-> card_template,
     rarity_pool |-> rarity_pool, player_profile |-> player_profile,
     player_deck |-> player_deck, card_instance |-> card_instance, listing |-> listing,
     token_account |-> token_account,
     escrow_token_account |-> escrow_token_account, lamports |-> lamports]

Ok(st) == [err |-> "Ok", st |-> st]
Err(code, st) == [err |-> code, st |-> st]

(* variant: what a failed instruction wrote in memory is kept *)
CommitPartial(pre, res) == res.st

(* A failed instruction aborts the transaction: nothing it wrote is kept.  *)
Commit(pre, res) == IF res.err = "Ok" THEN res.st ELSE pre

----------------------------------------------------------------------------
(* Strings are sequences of one-character strings; s.len() is Len(s).      *)
Whitespace == {" "}
TrimIsEmpty(s) == \A i \in 1..Len(s) : s[i] \in Whitespace

MAX_CARD_CREATORS == 10
MAX_NAME_LEN == 32
MAX_DESCRIPTION_LEN == 200
MAX_IMAGE_URI_LEN == 200
MAX_USERNAME_LEN == 32
FREE_STARTER_TICKETS == 10
BASE_TROPHY_GAIN == 30
TROPHY_LOSS == 30
WIN_REWARD == 100
LAMPORTS_PER_SOL == 1000000000
STARTER_PACK_CARD_COUNT == 10
FEE_NUMERATOR == 25
FEE_DENOMINATOR == 1000

Rarities == {"Common", "Rare", "Legendary"}
TraitTypes == {"Warrior", "Archer", "Assassin"}

validate_non_empty_string(s) == IF TrimIsEmpty(s) THEN "EmptyString" ELSE "Ok"
(* variant: a string of exactly max_len is rejected too *)
validate_string_length_strict(s, max_len) ==
    IF Len(s) >= max_len THEN "StringTooLong" ELSE "Ok"

validate_string_length(s, max_len) ==
    IF Len(s) <= max_len THEN "Ok" ELSE "StringTooLong"

(* variant: every signer counts as a creator *)
is_authorized_creator_anyone(cfg, signer) == TRUE

is_authorized_creator(cfg, signer) ==
    \/ signer = cfg.authority
    \/ \E i \in 1..Len(cfg.card_creators) : cfg.card_creators[i] = signer

----------------------------------------------------------------------------
(* initialize *)
(* variant: `init_if_needed` in place of `init` *)
InitializeAccountsInitIfNeeded(s, authority) ==
    Ok(IF Has(s.game_config, ConfigKey) THEN s
       ELSE [s EXCEPT !.game_config = Put(@, ConfigKey,
                [authority |-> DefaultPubkey, card_creators |-> <<>>,
                 normal_pack_price |-> 0, starter_pack_card_count |-> 0,
                 sol_to_bug_rate |-> 0, ticket_price |-> 0])])
InitializeAccounts(s, authority) ==
    IF Has(s.game_config, ConfigKey) THEN Err("AccountInUse", s)
    ELSE Ok([s EXCEPT !.game_config = Put(@, ConfigKey,
                [authority |-> DefaultPubkey, card_creators |-> <<>>,
                 normal_pack_price |-> 0, starter_pack_card_count |-> 0,
                 sol_to_bug_rate |-> 0, ticket_price |-> 0])])

initialize(s, authority, normal_pack_price, sol_to_bug_rate, ticket_price) ==
    Ok([s EXCEPT !.game_config[ConfigKey] =
            [authority |-> authority, card_creators |-> <<>>,
             normal_pack_price |-> normal_pack_price,
             starter_pack_card_count |-> STARTER_PACK_CARD_COUNT,
             sol_to_bug_rate |-> sol_to_bug_rate,
             ticket_price |-> ticket_price]])

InitializeTx(s, authority, normal_pack_price, sol_to_bug_rate, ticket_price) ==
    LET a == InitializeAccounts(s, authority)
    IN  IF a.err # "Ok" THEN a
        ELSE initialize(a.st, authority, normal_pack_price, sol_to_bug_rate,
                        ticket_price)

(* create_card_template; t is the record of the instruction's arguments *)
(* variant: `init_if_needed` in place of `init` *)
CreateCardTemplateAccountsInitIfNeeded(s, creator, card_type_id) ==
    IF ~Has(s.game_config, ConfigKey) THEN Err("AccountNotInitialized", s)
    ELSE Ok(IF Has(s.card_template, card_type_id) THEN s
            ELSE [s EXCEPT !.card_template = Put(@, card_type_id,
                [card_type_id |-> 0, name |-> <<>>, trait_type |-> "Warrior",
                 rarity |-> "Common", min_attack |-> 0, max_attack |-> 0,
                 min_health |-> 0, max_health |-> 0, description |-> <<>>,
                 image_uri |-> <<>>])])
CreateCardTemplateAccounts(s, creator, card_type_id) ==
    IF ~Has(s.game_config, ConfigKey) THEN Err("AccountNotInitialized", s)
    ELSE IF Has(s.card_template, card_type_id) THEN Err("AccountInUse", s)
    ELSE Ok([s EXCEPT !.card_template = Put(@, card_type_id,
                [card_type_id |-> 0, name |-> <<>>, trait_type |-> "Warrior",
                 rarity |-> "Common", min_attack |-> 0, max_attack |-> 0,
                 min_health |-> 0, max_health |-> 0, description |-> <<>>,
                 image_uri |-> <<>>])])

create_card_template(s, creator, card_type_id, t) ==
    LET cfg == s.game_config[ConfigKey] IN
    IF ~is_authorized_creator(cfg, creator) THEN Err("Unauthorized", s)
    ELSE IF ~(t.min_attack <= t.max_attack) THEN Err("InvalidStatRange", s)
    ELSE IF ~(t.min_health <= t.max_health) THEN Err("InvalidStatRange", s)
    ELSE IF validate_non_empty_string(t.name) # "Ok"
         THEN Err(validate_non_empty_string(t.name), s)
    ELSE IF validate_non_empty_string(t.description) # "Ok"
         THEN Err(validate_non_empty_string(t.description), s)
    ELSE IF validate_string_length(t.name, MAX_NAME_LEN) # "Ok"
         THEN Err("StringTooLong", s)
    ELSE IF validate_string_length(t.description, MAX_DESCRIPTION_LEN) # "Ok"
         THEN Err("StringTooLong", s)
    ELSE IF validate_string_length(t.image_uri, MAX_IMAGE_URI_LEN) # "Ok"
         THEN Err("StringTooLong", s)
    ELSE Ok([s EXCEPT !.card_template[card_type_id] =
                [card_type_id |-> card_type_id, name |-> t.name,
                 trait_type |-> t.trait_type, rarity |-> t.rarity,
                 min_attack |-> t.min_attack, max_attack |-> t.max_attack,
                 min_health |-> t.min_health, max_health |-> t.max_health,
                 description |-> t.description, image_uri |-> t.image_uri]])

CreateCardTemplateTx(s, creator, card_type_id, t) ==
    LET a == CreateCardTemplateAccounts(s, creator, card_type_id)
    IN  IF a.err # "Ok" THEN a
        ELSE create_card_template(a.st, creator, card_type_id, t)

(* register_player *)
(* variant: init_if_needed, an existing profile is accepted *)
RegisterPlayerAccountsInitIfNeeded(s, player) ==
    IF Has(s.player_profile, player) THEN Ok(s)
    ELSE Ok([s EXCEPT !.player_profile = Put(@, player,
                [wallet |-> DefaultPubkey, username |-> <<>>,
                 has_claimed_starter_pack |-> FALSE, gacha_tickets |-> 0,
                 bug_balance |-> 0, trophies |-> 0, total_wins |-> 0,
                 total_losses |-> 0, win_streak |-> 0])])

RegisterPlayerAccounts(s, player) ==
    IF Has(s.player_profile, player) THEN Err("AccountInUse", s)
    ELSE Ok([s EXCEPT !.player_profile = Put(@, player,
                [wallet |-> DefaultPubkey, username |-> <<>>,
                 has_claimed_starter_pack |-> FALSE, gacha_tickets |-> 0,
                 bug_balance |-> 0, trophies |-> 0, total_wins |-> 0,
                 total_losses |-> 0, win_streak |-> 0])])

register_player(s, player, username) ==
    IF validate_non_empty_string(username) # "Ok" THEN Err("EmptyString", s)
    ELSE IF validate_string_length(username, MAX_USERNAME_LEN) # "Ok"
         THEN Err("StringTooLong", s)
    ELSE Ok([s EXCEPT !.player_profile[player] =
                [wallet |-> player, username |-> username,
                 has_claimed_starter_pack |-> FALSE, gacha_tickets |-> 0,
                 bug_balance |-> 0, trophies |-> 0, total_wins |-> 0,
                 total_losses |-> 0, win_streak |-> 0]])

RegisterPlayerTx(s, player, username) ==
    LET a == RegisterPlayerAccounts(s, player)
    IN  IF a.err # "Ok" THEN a ELSE register_player(a.st, player, username)

(* claim_starter_tickets *)
ClaimStarterTicketsAccounts(s, player) ==
    IF ~Has(s.player_profile, player) THEN Err("AccountNotInitialized", s)
    ELSE IF s.player_profile[player].has_claimed_starter_pack
         THEN Err("StarterPackAlreadyClaimed", s)
    ELSE Ok(s)

(* variant: the claim is not recorded on the profile *)
mark_claimed_forgotten(profile) == profile

(* player_profile.has_claimed_starter_pack = true *)
mark_claimed(profile) == [profile EXCEPT !.has_claimed_starter_pack = TRUE]

claim_starter_tickets(s, player) ==
    IF s.player_profile[player].has_claimed_starter_pack
    THEN Err("StarterPackAlreadyClaimed", s)
    ELSE Ok([s EXCEPT
            !.player_profile[player] =
                mark_claimed([@ EXCEPT
                    !.gacha_tickets = FREE_STARTER_TICKETS])])

ClaimStarterTicketsTx(s, player) ==
    LET a == ClaimStarterTicketsAccounts(s, player)
    IN  IF a.err # "Ok" THEN a ELSE claim_starter_tickets(a.st, player)

(* add_gacha_tickets: the profile is named by the wallet it stores *)
AddGachaTicketsAccounts(s, authority, wallet) ==
    IF ~Has(s.player_profile, wallet) THEN Err("AccountNotInitialized", s)
    ELSE IF ~Has(s.game_config, ConfigKey) THEN Err("AccountNotInitialized", s)
    ELSE IF s.game_config[ConfigKey].authority # authority
         THEN Err("ConstraintHasOne", s)
    ELSE Ok(s)

add_gacha_tickets(s, wallet, amount) ==
    LET t == checked_add(s.player_profile[wallet].gacha_tickets, amount, U64Max)
    IN  IF ~t.some THEN Err("NumericalOverflow", s)
        ELSE Ok([s EXCEPT !.player_profile[wallet].gacha_tickets = t.val])

AddGachaTicketsTx(s, authority, wallet, amount) ==
    LET a == AddGachaTicketsAccounts(s, authority, wallet)
    IN  IF a.err # "Ok" THEN a ELSE add_gacha_tickets(a.st, wallet, amount)

----------------------------------------------------------------------------
(* buy_bug_tokens.  The product sol_amount * rate is formed in u128 (it    *)
(* cannot overflow there), divided by LAMPORTS_PER_SOL, and cast back with *)
(* `as u64`, which keeps the low 64 bits.  MulDivU64 computes that value   *)
(* by binary long multiplication without forming the product.              *)
AddMod(x, y, m) == IF x >= m - y THEN x - (m - y) ELSE x + y

(* one step: from [q, r] with x*b = q*d + r to the same for 2x + bit *)
MulDivStep(h, bit, b, d, m) ==
    IF 2 * h.r >= d
    THEN LET r3 == (2 * h.r - d) + bit * (b % d)
             c2 == IF r3 >= d THEN 1 ELSE 0
         IN  [q |-> AddMod(AddMod(AddMod(h.q, h.q, m), 1, m),
                           AddMod(bit * ((b \div d) % m), c2, m), m),
              r |-> r3 - c2 * d]
    ELSE LET r3 == 2 * h.r + bit * (b % d)
             c2 == IF r3 >= d THEN 1 ELSE 0
         IN  [q |-> AddMod(AddMod(h.q, h.q, m),
                           AddMod(bit * ((b \div d) % m), c2, m), m),
              r |-> r3 - c2 * d]

RECURSIVE MulDivRec(_, _, _, _)
MulDivRec(a, b, d, m) ==
    IF a = 0 THEN [q |-> 0, r |-> 0]
    ELSE MulDivStep(MulDivRec(a \div 2, b, d, m), a % 2, b, d, m)

MulDivU64(a, b, d) == MulDivRec(a, b, d, U64Max + 1).q

BuyBugTokensAccounts(s, player) ==
    IF ~Has(s.game_config, ConfigKey) THEN Err("AccountNotInitialized", s)
    ELSE IF ~Has(s.player_profile, player) THEN Err("AccountNotInitialized", s)
    ELSE Ok(s)

(* system_instruction::transfer(player, treasury, sol_amount) *)
(* variant: a transfer the payer cannot cover moves nothing and succeeds *)
system_transfer_lenient(s, from, to, amount) ==
    IF s.lamports[from] < amount THEN Ok(s)
    ELSE Ok([s EXCEPT !.lamports =
                [a \in DOMAIN @ |->
                    IF a = from /\ a = to THEN @[a]
                    ELSE IF a = from THEN @[a] - amount
                    ELSE IF a = to THEN @[a] + amount
                    ELSE @[a]]])
system_transfer(s, from, to, amount) ==
    IF s.lamports[from] < amount THEN Err("InsufficientFunds", s)
    ELSE Ok([s EXCEPT !.lamports =
                [a \in DOMAIN @ |->
                    IF a = from /\ a = to THEN @[a]
                    ELSE IF a = from THEN @[a] - amount
                    ELSE IF a = to THEN @[a] + amount
                    ELSE @[a]]])

buy_bug_tokens(s, player, sol_amount) ==
    LET rate == s.game_config[ConfigKey].sol_to_bug_rate
        bug_amount == MulDivU64(sol_amount, rate, LAMPORTS_PER_SOL)
    IN  IF ~(sol_amount > 0) THEN Err("InvalidAmount", s)
        ELSE IF ~(bug_amount > 0) THEN Err("InvalidAmount", s)
        ELSE LET t == system_transfer(s, player, Treasury, sol_amount) IN
             IF t.err # "Ok" THEN t
             ELSE LET b == checked_add(t.st.player_profile[player].bug_balance,
                                       bug_amount, U64Max)
                  IN  IF ~b.some THEN Err("NumericalOverflow", t.st)
                      ELSE Ok([t.st EXCEPT
                               !.player_profile[player].bug_balance = b.val])

BuyBugTokensTx(s, player, sol_amount) ==
    LET a == BuyBugTokensAccounts(s, player)
    IN  IF a.err # "Ok" THEN a ELSE buy_bug_tokens(a.st, player, sol_amount)

----------------------------------------------------------------------------
(* The draw engine.  A 64-bit random value is the pair of its 32-bit       *)
(* halves [hi, lo], so that `random_value >> 32` is hi.                    *)
TwoPow16 == U16Max + 1

(* (hi * 2^32 + lo) % n, for 0 < n <= 2^16 *)
RandomMod(v, n) ==
    LET p16 == TwoPow16 % n
        p32 == (p16 * p16) % n
    IN  ((((v.hi % n) * p32) % n) + (v.lo % n)) % n

(* u16 addition: the build decides whether an overflow panics or wraps *)
add_u16(a, b) ==
    IF a + b > U16Max
    THEN {[panic |-> TRUE, val |-> 0],
          [panic |-> FALSE, val |-> (a + b) % (U16Max + 1)]}
    ELSE {[panic |-> FALSE, val |-> a + b]}

(* variant: the health is rolled from the same bits as the attack *)
roll_card_stats_same_bits(min_attack, max_attack, min_health, max_health, random_value) ==
    LET attack_range == saturating_sub(max_attack, min_attack) + 1
        health_range == saturating_sub(max_health, min_health) + 1
    IN  [attack |-> add_u16(min_attack, RandomMod(random_value, attack_range)),
         health |-> add_u16(min_health, RandomMod(random_value, health_range))]
roll_card_stats(min_attack, max_attack, min_health, max_health, random_value) ==
    LET attack_range == saturating_sub(max_attack, min_attack) + 1
        health_range == saturating_sub(max_health, min_health) + 1
    IN  [attack |-> add_u16(min_attack, RandomMod(random_value, attack_range)),
         health |-> add_u16(min_health, random_value.hi % health_range)]

(* Every mint the model draws on was created by the client with the        *)
(* game_config PDA as its mint authority and no supply.                    *)
mint_authority(m) == ConfigKey

(* variant: the card_instance account is not required to be new *)
GachaDrawAccountsInitIfNeeded(s, player, card_type_id, m) ==
    IF ~Has(s.player_profile, player) THEN Err("AccountNotInitialized", s)
    ELSE IF ~Has(s.game_config, ConfigKey) THEN Err("AccountNotInitialized", s)
    ELSE IF ~Has(s.card_template, card_type_id)
         THEN Err("AccountNotInitialized", s)
    ELSE IF Has(s.token_account, <<player, m>>) THEN Err("AccountInUse", s)
    ELSE Ok([s EXCEPT
            !.token_account = Put(@, <<player, m>>, 0),
            !.card_instance = Put(@, m,
                [mint |-> DefaultPubkey, card_type_id |-> 0, attack |-> 0,
                 health |-> 0, owner |-> DefaultPubkey])])
GachaDrawAccounts(s, player, card_type_id, m) ==
    IF ~Has(s.player_profile, player) THEN Err("AccountNotInitialized", s)
    ELSE IF ~Has(s.game_config, ConfigKey) THEN Err("AccountNotInitialized", s)
    ELSE IF ~Has(s.card_template, card_type_id)
         THEN Err("AccountNotInitialized", s)
    ELSE IF Has(s.token_account, <<player, m>>) THEN Err("AccountInUse", s)
    ELSE IF Has(s.card_instance, m) THEN Err("AccountInUse", s)
    ELSE IF mint_authority(m) # ConfigKey THEN Err("Unauthorized", s)
    ELSE Ok([s EXCEPT
            !.token_account = Put(@, <<player, m>>, 0),
            !.card_instance = Put(@, m,
                [mint |-> DefaultPubkey, card_type_id |-> 0, attack |-> 0,
                 health |-> 0, owner |-> DefaultPubkey])])

(* player_profile.gacha_tickets.checked_sub(1) *)
(* variant: the draw keeps the ticket *)
deduct_ticket_free(tickets) == Some(tickets)
deduct_ticket(tickets) == checked_sub(tickets, 1)

(* attack and health are the values roll_card_stats produced *)
gacha_draw(s, player, card_type_id, m, random_value) ==
    LET profile == s.player_profile[player]
        tpl == s.card_template[card_type_id]
    IN  IF ~(profile.gacha_tickets >= 1) THEN {Err("InsufficientTickets", s)}
        ELSE LET t  == deduct_ticket(profile.gacha_tickets)
                 s1 == [s EXCEPT !.player_profile[player].gacha_tickets = t.val]
                 stats == roll_card_stats(tpl.min_attack, tpl.max_attack,
                                          tpl.min_health, tpl.max_health,
                                          random_value)
             IN  IF ~t.some THEN {Err("NumericalOverflow", s)}
                 ELSE { IF a.panic \/ h.panic THEN Err("Panic", s1)
                        ELSE Ok([s1 EXCEPT
                                !.token_account[<<player, m>>] = @ + 1,
                                !.card_instance[m] =
                                    [mint |-> m,
                                     card_type_id |-> tpl.card_type_id,
                                     attack |-> a.val, health |-> h.val,
                                     owner |-> player]])
                        : a \in stats.attack, h \in stats.health }

(* the set of results the transaction can have *)
GachaDrawTx(s, player, card_type_id, m, random_value) ==
    LET a == GachaDrawAccounts(s, player, card_type_id, m)
    IN  IF a.err # "Ok" THEN {a}
        ELSE gacha_draw(a.st, player, card_type_id, m, random_value)

----------------------------------------------------------------------------
(* Marketplace.  A wallet's token account is named by its key              *)
(* <<owner, mint>>; the escrow token account by its mint (seed "escrow").  *)
TokenOwner(ta) == ta[1]
TokenMint(ta) == ta[2]

(* list_card *)
ListCardAccounts(s, seller, m, ta) ==
    IF ~Has(s.token_account, ta) THEN Err("AccountNotInitialized", s)
    ELSE IF Has(s.listing, m) THEN Err("AccountInUse", s)
    ELSE IF Has(s.escrow_token_account, m) THEN Err("AccountInUse", s)
    ELSE IF TokenOwner(ta) # seller THEN Err("ConstraintRaw", s)
    ELSE IF TokenMint(ta) # m THEN Err("ConstraintRaw", s)
    ELSE IF s.token_account[ta] # 1 THEN Err("Unauthorized", s)
    ELSE Ok([s EXCEPT
            !.listing = Put(@, m, [seller |-> DefaultPubkey,
                                   card_mint |-> DefaultPubkey,
                                   price |-> 0, is_active |-> FALSE]),
            !.escrow_token_account = Put(@, m, 0)])

(* the listing's fields are set, then token::transfer(seller -> escrow, 1) *)
(* variant: the transfer into the escrow is left out *)
list_card_keeps_token(s, seller, m, ta, price) ==
    IF ~(price > 0) THEN Err("InvalidPrice", s)
    ELSE Ok([s EXCEPT !.listing[m] =
                        [seller |-> seller, card_mint |-> m, price |-> price,
                         is_active |-> TRUE],
                      !.escrow_token_account[m] = @ + 1])
(* variant: the price is not looked at *)
list_card_any_price(s, seller, m, ta, price) ==
    Ok([s EXCEPT !.listing[m] =
                    [seller |-> seller, card_mint |-> m, price |-> price,
                     is_active |-> TRUE],
                 !.token_account[ta] = @ - 1,
                 !.escrow_token_account[m] = @ + 1])
(* variant: the CardInstance names no owner while the card is listed *)
list_card_disowns(s, seller, m, ta, price) ==
    IF ~(price > 0) THEN Err("InvalidPrice", s)
    ELSE Ok([s EXCEPT !.listing[m] =
                        [seller |-> seller, card_mint |-> m, price |-> price,
                         is_active |-> TRUE],
                      !.token_account[ta] = @ - 1,
                      !.escrow_token_account[m] = @ + 1,
                      !.card_instance[m].owner = DefaultPubkey])
list_card(s, seller, m, ta, price) ==
    IF ~(price > 0) THEN Err("InvalidPrice", s)
    ELSE LET s1 == [s EXCEPT !.listing[m] =
                        [seller |-> seller, card_mint |-> m, price |-> price,
                         is_active |-> TRUE]]
         IN  IF s1.token_account[ta] < 1 THEN Err("InsufficientFunds", s1)
             ELSE Ok([s1 EXCEPT !.token_account[ta] = @ - 1,
                                !.escrow_token_account[m] = @ + 1])

ListCardTx(s, seller, m, ta, price) ==
    LET a == ListCardAccounts(s, seller, m, ta)
    IN  IF a.err # "Ok" THEN a ELSE list_card(a.st, seller, m, ta, price)

(* cancel_listing *)
(* variant: the seller constraint on the listing is left out *)
CancelListingAccountsAnySigner(s, seller, m, ta) ==
    IF ~Has(s.listing, m) THEN Err("AccountNotInitialized", s)
    ELSE IF ~Has(s.token_account, ta) THEN Err("AccountNotInitialized", s)
    ELSE IF ~Has(s.escrow_token_account, m) THEN Err("AccountNotInitialized", s)
    ELSE IF ~s.listing[m].is_active THEN Err("ListingNotActive", s)
    ELSE IF TokenOwner(ta) # seller THEN Err("ConstraintRaw", s)
    ELSE IF TokenMint(ta) # m THEN Err("ConstraintRaw", s)
    ELSE Ok(s)
(* variant: the seller's profile and the card's record are required, as    *)
(* buy_card requires them                                                  *)
CancelListingAccountsAsBuy(s, seller, m, ta) ==
    IF ~Has(s.listing, m) THEN Err("AccountNotInitialized", s)
    ELSE IF ~Has(s.player_profile, seller) THEN Err("AccountNotInitialized", s)
    ELSE IF ~Has(s.card_instance, m) THEN Err("AccountNotInitialized", s)
    ELSE IF ~Has(s.token_account, ta) THEN Err("AccountNotInitialized", s)
    ELSE IF ~Has(s.escrow_token_account, m) THEN Err("AccountNotInitialized", s)
    ELSE IF s.listing[m].seller # seller THEN Err("Unauthorized", s)
    ELSE IF ~s.listing[m].is_active THEN Err("ListingNotActive", s)
    ELSE IF TokenOwner(ta) # seller THEN Err("ConstraintRaw", s)
    ELSE IF TokenMint(ta) # m THEN Err("ConstraintRaw", s)
    ELSE Ok(s)
CancelListingAccounts(s, seller, m, ta) ==
    IF ~Has(s.listing, m) THEN Err("AccountNotInitialized", s)
    ELSE IF ~Has(s.token_account, ta) THEN Err("AccountNotInitialized", s)
    ELSE IF ~Has(s.escrow_token_account, m) THEN Err("AccountNotInitialized", s)
    ELSE IF s.listing[m].seller # seller THEN Err("Unauthorized", s)
    ELSE IF ~s.listing[m].is_active THEN Err("ListingNotActive", s)
    ELSE IF TokenOwner(ta) # seller THEN Err("ConstraintRaw", s)
    ELSE IF TokenMint(ta) # m THEN Err("ConstraintRaw", s)
    ELSE Ok(s)

cancel_listing(s, seller, m, ta) ==
    IF ~s.listing[m].is_active THEN Err("ListingNotActive", s)
    ELSE IF s.escrow_token_account[m] < 1 THEN Err("InsufficientFunds", s)
    ELSE LET s1 == [s EXCEPT !.escrow_token_account[m] = @ - 1,
                             !.token_account[ta] = @ + 1]
         IN  IF s1.escrow_token_account[m] # 0
             THEN Err("NonNativeHasBalance", s1)
             ELSE Ok([s1 EXCEPT !.escrow_token_account = Del(@, m)])

(* `close = seller` on the listing runs when the handler returned Ok *)
(* variant: the card stays in the escrow *)
CancelListingTxKeepsEscrow(s, seller, m, ta) ==
    LET a == CancelListingAccounts(s, seller, m, ta)
    IN  IF a.err # "Ok" THEN a
        ELSE IF a.st.escrow_token_account[m] < 1
             THEN Err("InsufficientFunds", a.st)
        ELSE Ok([a.st EXCEPT !.escrow_token_account[m] = @ - 1,
                             !.token_account[ta] = @ + 1,
                             !.listing = Del(@, m)])
CancelListingTx(s, seller, m, ta) ==
    LET a == CancelListingAccounts(s, seller, m, ta)
        h == cancel_listing(a.st, seller, m, ta)
    IN  IF a.err # "Ok" THEN a
        ELSE IF h.err # "Ok" THEN h
        ELSE Ok([h.st EXCEPT !.listing = Del(@, m)])

(* buy_card *)
BuyCardAccounts(s, buyer, m, seller) ==
    IF ~Has(s.listing, m) THEN Err("AccountNotInitialized", s)
    ELSE IF ~Has(s.player_profile, buyer) THEN Err("AccountNotInitialized", s)
    ELSE IF ~Has(s.player_profile, s.listing[m].seller)
         THEN Err("AccountNotInitialized", s)
    ELSE IF ~Has(s.card_instance, m) THEN Err("AccountNotInitialized", s)
    ELSE IF ~Has(s.escrow_token_account, m) THEN Err("AccountNotInitialized", s)
    ELSE IF ~s.listing[m].is_active THEN Err("ListingNotActive", s)
    ELSE IF seller # s.listing[m].seller THEN Err("ConstraintRaw", s)
    ELSE Ok(IF Has(s.token_account, <<buyer, m>>) THEN s
            ELSE [s EXCEPT !.token_account = Put(@, <<buyer, m>>, 0)])

(* require!(buyer.key() != listing.seller) *)
(* variant: the seller may buy *)
not_own_card_unchecked(buyer, seller) == TRUE
not_own_card(buyer, seller) == buyer # seller

(* price.checked_mul(25).unwrap().checked_div(1000).unwrap(); None panics *)
(* variant: the fee is divided by 100 *)
platform_fee_tenfold(price) ==
    LET p == checked_mul(price, FEE_NUMERATOR, U64Max)
    IN  IF ~p.some THEN NoneVal ELSE checked_div(p.val, FEE_DENOMINATOR \div 10)
platform_fee(price) ==
    LET p == checked_mul(price, FEE_NUMERATOR, U64Max)
    IN  IF ~p.some THEN NoneVal ELSE checked_div(p.val, FEE_DENOMINATOR)

(* price.checked_sub(fee).unwrap(); None panics *)
(* variant: the seller receives the whole price *)
seller_share_whole(price, fee) == Some(price)
seller_share(price, fee) == checked_sub(price, fee)

(* seller_profile.bug_balance.checked_add(seller_amount) *)
(* variant: the credit saturates where the program fails *)
credit_seller_saturating(balance, seller_amount) ==
    Some(IF balance > U64Max - seller_amount THEN U64Max
         ELSE balance + seller_amount)
credit_seller(balance, seller_amount) ==
    checked_add(balance, seller_amount, U64Max)

buy_card(s, buyer, m) ==
    LET l == s.listing[m]
        price == l.price
        fee == platform_fee(price)
        seller_amount == seller_share(price, fee.val)
        debit == checked_sub(s.player_profile[buyer].bug_balance, price)
        s1 == [s EXCEPT !.player_profile[buyer].bug_balance = debit.val]
        credit == credit_seller(s1.player_profile[l.seller].bug_balance,
                                seller_amount.val)
        s2 == [s1 EXCEPT !.player_profile[l.seller].bug_balance = credit.val]
        s3 == [s2 EXCEPT !.escrow_token_account[m] = @ - 1,
                         !.token_account[<<buyer, m>>] = @ + 1]
    IN  IF ~l.is_active THEN Err("ListingNotActive", s)
        ELSE IF ~not_own_card(buyer, l.seller) THEN Err("CannotBuyOwnCard", s)
        ELSE IF ~(s.player_profile[buyer].bug_balance >= price)
             THEN Err("InsufficientBalance", s)
        ELSE IF ~fee.some THEN Err("Panic", s)
        ELSE IF ~seller_amount.some THEN Err("Panic", s)
        ELSE IF ~debit.some THEN Err("NumericalOverflow", s)
        ELSE IF ~credit.some THEN Err("NumericalOverflow", s1)
        ELSE IF s2.escrow_token_account[m] < 1 THEN Err("InsufficientFunds", s2)
        ELSE IF s3.escrow_token_account[m] # 0
             THEN Err("NonNativeHasBalance", s3)
        ELSE Ok([s3 EXCEPT !.escrow_token_account = Del(@, m),
                           !.card_instance[m].owner = buyer])

(* `close = seller` on the listing runs when the handler returned Ok *)
(* variant: the listing is not closed *)
BuyCardTxKeepsListing(s, buyer, m, seller) ==
    LET a == BuyCardAccounts(s, buyer, m, seller)
    IN  IF a.err # "Ok" THEN a ELSE buy_card(a.st, buyer, m)
BuyCardTx(s, buyer, m, seller) ==
    LET a == BuyCardAccounts(s, buyer, m, seller)
        h == buy_card(a.st, buyer, m)
    IN  IF a.err # "Ok" THEN a
        ELSE IF h.err # "Ok" THEN h
        ELSE Ok([h.st EXCEPT !.listing = Del(@, m)])

----------------------------------------------------------------------------
(* The transactions the model submits.                                     *)
Admin == "admin"
Wallets == {"w1", "w2", "w3"}
Mints == {"m1", "m2"}

MaxSales == 2               \* successful purchases in one behaviour
PackPrice == 50
TicketPrice == 5
ListPrice == 40             \* the price with a non-zero fee (fee 1)
RichBalance == U64Max - 30  \* a balance the credit of a sale overflows
HugePrice == U64Max \div 2  \* a price whose fee product overflows

Username == <<"z", "o", "o">>
TemplateArgs ==
    [name |-> <<"A", "n", "t">>, trait_type |-> "Warrior", rarity |-> "Common",
     min_attack |-> 1, max_attack |-> 3, min_health |-> 2, max_health |-> 2,
     description |-> <<"a", "n", "t">>, image_uri |-> <<>>]
TemplateIds == {1, 2}
RandomValues == {[hi |-> 0, lo |-> 0], [hi |-> 7, lo |-> 5]}
Prices == {0, ListPrice, HugePrice}

Genesis ==
    [game_config |-> NoAccounts, card_template |-> NoAccounts,
     rarity_pool |-> NoAccounts, player_profile |-> NoAccounts,
     player_deck |-> NoAccounts, card_instance |-> NoAccounts, listing |-> NoAccounts,
     token_account |-> NoAccounts, escrow_token_account |-> NoAccounts,
     lamports |-> [a \in Wallets \cup {Admin, Treasury} |->
                     IF a = "w1" THEN RichBalance
                     ELSE IF a = "w2" THEN ListPrice ELSE 0]]

(* The state the marketplace runs start from: the game is initialized, one *)
(* template exists, the three wallets are registered, w1 and w2 have       *)
(* claimed their starter tickets and converted their SOL.  It is the       *)
(* result of running these transactions on Genesis.                        *)
Initialized ==
    Commit(Genesis, InitializeTx(Genesis, Admin, PackPrice, LAMPORTS_PER_SOL,
                                 TicketPrice))

WithTemplate ==
    Commit(Initialized, CreateCardTemplateTx(Initialized, Admin, 1, TemplateArgs))

Register(s, w) == Commit(s, RegisterPlayerTx(s, w, Username))
Registered == Register(Register(Register(WithTemplate, "w1"), "w2"), "w3")

Claim(s, w) == Commit(s, ClaimStarterTicketsTx(s, w))
Claimed == Claim(Claim(Registered, "w1"), "w2")

(* the wallet converts all the SOL it holds *)
Fund(s, w) == Commit(s, BuyBugTokensTx(s, w, s.lamports[w]))
FundedRich == Fund(Claimed, "w1")
Bootstrap == Fund(FundedRich, "w2")

Install(st) ==
    /\ game_config' = st.game_config
    /\ card_template' = st.card_template
    /\ rarity_pool' = st.rarity_pool
    /\ player_profile' = st.player_profile
    /\ player_deck' = st.player_deck
    /\ card_instance' = st.card_instance
    /\ listing' = st.listing
    /\ token_account' = st.token_account
    /\ escrow_token_account' = st.escrow_token_account
    /\ lamports' = st.lamports

Submit(op, caller, m, id, res) ==
    /\ last' = [op |-> op, caller |-> caller, mint |-> m,
                card_type_id |-> id, err |-> res.err]
    /\ Install(Commit(Store, res))

InitAccounts(st) ==
    /\ game_config = st.game_config
    /\ card_template = st.card_template
    /\ rarity_pool = st.rarity_pool
    /\ player_profile = st.player_profile
    /\ player_deck = st.player_deck
    /\ card_instance = st.card_instance
    /\ listing = st.listing
    /\ token_account = st.token_account
    /\ escrow_token_account = st.escrow_token_account
    /\ lamports = st.lamports

Init ==
    /\ InitAccounts(Bootstrap)
    /\ sales = 0
    /\ last = [op |-> "none", caller |-> "none", mint |-> "none",
               card_type_id |-> 0, err |-> "Ok"]
    /\ listing_state = [m \in Mints |-> "Unlisted"]

GachaDraw(player, card_type_id, m, random_value) ==
    /\ \E res \in GachaDrawTx(Store, player, card_type_id, m, random_value) :
          Submit("gacha_draw", player, m, card_type_id, res)
    /\ UNCHANGED <<listing_state, sales>>

ListCard(seller, m, ta, price) ==
    LET res == ListCardTx(Store, seller, m, ta, price) IN
    /\ Submit("list_card", seller, m, 0, res)
    /\ listing_state' = IF res.err = "Ok"
                        THEN [listing_state EXCEPT ![m] = "Active"]
                        ELSE listing_state
    /\ UNCHANGED sales

CancelListing(seller, m, ta) ==
    LET res == CancelListingTx(Store, seller, m, ta) IN
    /\ Submit("cancel_listing", seller, m, 0, res)
    /\ listing_state' = IF res.err = "Ok"
                        THEN [listing_state EXCEPT ![m] = "Cancelled"]
                        ELSE listing_state
    /\ UNCHANGED sales

BuyCard(buyer, m, seller) ==
    LET res == BuyCardTx(Store, buyer, m, seller) IN
    /\ sales < MaxSales
    /\ Submit("buy_card", buyer, m, 0, res)
    /\ sales' = IF res.err = "Ok" THEN sales + 1 ELSE sales
    /\ listing_state' = IF res.err = "Ok"
                        THEN [listing_state EXCEPT ![m] = "Sold"]
                        ELSE listing_state

Next ==
    \/ \E p \in Wallets, id \in TemplateIds, m \in Mints, v \in RandomValues :
          GachaDraw(p, id, m, v)
    \/ \E p \in Wallets, m \in Mints, ta \in DOMAIN token_account,
          price \in Prices : ListCard(p, m, ta, price)
    \/ \E p \in Wallets, m \in Mints, ta \in DOMAIN token_account :
          CancelListing(p, m, ta)
    \/ \E p \in Wallets, m \in Mints, seller \in Wallets :
          BuyCard(p, m, seller)

Spec == Init /\ [][Next]_vars

----------------------------------------------------------------------------
(* Properties.                                                             *)
TokenOf(tacc, w, m) == IF Has(tacc, <<w, m>>) THEN tacc[<<w, m>>] ELSE 0
EscrowOf(esc, m) == IF Has(esc, m) THEN esc[m] ELSE 0
FeeOf(P) == (P * 25) \div 1000

(* buyer b paid the price of the listing of m, its seller received the     *)
(* price minus the fee, and no other balance moved                         *)
Paid(b, m) ==
    LET S == listing[m].seller
        P == listing[m].price
    IN  /\ DOMAIN player_profile' = DOMAIN player_profile
        /\ player_profile'[b].bug_balance = player_profile[b].bug_balance - P
        /\ player_profile'[S].bug_balance =
               player_profile[S].bug_balance + (P - FeeOf(P))
        /\ \A w \in DOMAIN player_profile \ {b, S} :
               player_profile'[w] = player_profile[w]

(* the card of m went from the escrow to b, the CardInstance names b, and  *)
(* the listing and its escrow account are gone                             *)
Delivered(b, m) ==
    /\ escrow_token_account[m] = 1
    /\ ~Has(escrow_token_account', m)
    /\ TokenOf(token_account', b, m) = TokenOf(token_account, b, m) + 1
    /\ \A w \in Wallets \ {b} :
           TokenOf(token_account', w, m) = TokenOf(token_account, w, m)
    /\ card_instance'[m].owner = b
    /\ ~Has(listing', m)

(* C1: a successful buy of the Active listing of a card, by a buyer other  *)
(* than its seller S whose balance covers the price P, takes exactly P     *)
(* from the buyer, gives exactly P - floor(P*25/1000) to S, moves the card *)
(* from the escrow to the buyer, sets the CardInstance owner to the buyer  *)
(* and removes the listing.                                                *)
C1_BuyEffect ==
    [][(last'.op = "buy_card" /\ last'.err = "Ok") =>
        LET b == last'.caller
            m == last'.mint
        IN  /\ Has(listing, m) /\ listing[m].is_active
            /\ b # listing[m].seller
            /\ player_profile[b].bug_balance >= listing[m].price
            /\ Paid(b, m)
            /\ Delivered(b, m)]_vars

C1_Witness ==
    /\ last.op = "buy_card" /\ last.err = "Ok"
    /\ card_instance[last.mint].owner = last.caller
    /\ TokenOf(token_account, last.caller, last.mint) = 1
    /\ player_profile["w2"].bug_balance = ListPrice + (ListPrice - 1)

(* C2: in every step the payment and the delivery of a purchase happen     *)
(* together or not at all: a card leaves the escrow to somebody other than *)
(* the seller only with the full payment and the removal of the listing,   *)
(* a balance moves only in such a step, and a buy that fails (also after   *)
(* its in-memory debit, on the overflow of the seller's credit) changes no *)
(* account.                                                                *)
C2_BuyAtomic ==
    [][/\ \A m \in Mints, b \in Wallets :
            ( /\ Has(listing, m)
              /\ b # listing[m].seller
              /\ TokenOf(token_account', b, m) > TokenOf(token_account, b, m) )
            => (Paid(b, m) /\ Delivered(b, m))
       /\ (\E w \in DOMAIN player_profile :
              ~Has(player_profile', w)
              \/ player_profile'[w].bug_balance
                    # player_profile[w].bug_balance)
            => \E m \in DOMAIN listing, b \in Wallets :
                  Paid(b, m) /\ Delivered(b, m)
       /\ (last'.op = "buy_card" /\ last'.err # "Ok") => UNCHANGED accounts
      ]_vars

C2_Witness ==
    /\ last.op = "buy_card" /\ last.err = "NumericalOverflow"
    /\ Has(listing, last.mint)
    /\ escrow_token_account[last.mint] = 1
    /\ player_profile[last.caller].bug_balance >= listing[last.mint].price

(* C3: in every reachable state, a list that succeeds followed by the      *)
(* seller's cancel succeeds and gives back exactly the accounts of before  *)
(* the list: the card in the seller's token account, no listing, no escrow *)
(* account, the same CardInstance owner, the same balances and tickets.    *)
C3_ListCancelRoundTrip ==
    \A seller \in Wallets, m \in Mints, ta \in DOMAIN token_account,
       price \in Prices :
        LET l == ListCardTx(Store, seller, m, ta, price)
            c == CancelListingTx(Commit(Store, l), seller, m, ta)
        IN  l.err = "Ok" =>
              /\ l.st.escrow_token_account[m] = 1
              /\ TokenOf(l.st.token_account, seller, m) = 0
              /\ c.err = "Ok"
              /\ Commit(Commit(Store, l), c) = Store

C3_Witness ==
    /\ last.op = "cancel_listing" /\ last.err = "Ok"
    /\ listing_state[last.mint] = "Cancelled"
    /\ ~Has(listing, last.mint)
    /\ TokenOf(token_account, last.caller, last.mint) = 1

(* the escrow account of m exists exactly when m has a listing, it then    *)
(* holds the card, and no wallet holds it                                  *)
EscrowCustody ==
    \A m \in Mints :
        /\ Has(escrow_token_account, m) <=> Has(listing, m)
        /\ Has(listing, m) =>
              /\ escrow_token_account[m] = 1
              /\ \A w \in Wallets : TokenOf(token_account, w, m) = 0

(* C4: a card is in escrow exactly when a listing record exists for it;    *)
(* while the listing exists no wallet holds the card, and the only step    *)
(* that gives the card back to the seller is the seller's successful       *)
(* cancel.                                                                 *)
C4_EscrowCustody ==
    [][/\ EscrowCustody
       /\ EscrowCustody'
       /\ \A m \in Mints :
            ( /\ Has(listing, m)
              /\ TokenOf(token_account', listing[m].seller, m) > 0 )
            => /\ last'.op = "cancel_listing" /\ last'.err = "Ok"
               /\ last'.caller = listing[m].seller /\ last'.mint = m
      ]_vars

C4_Witness ==
    \E m \in Mints :
        /\ Has(listing, m) /\ escrow_token_account[m] = 1
        /\ last.op = "list_card" /\ last.err = "Ok" /\ last.mint = m
        /\ TokenOf(token_account, listing[m].seller, m) = 0
        /\ listing_state[m] = "Active"

ListingsWellFormed ==
    \A m \in DOMAIN listing :
        /\ listing[m].price > 0
        /\ listing[m].is_active
        /\ listing[m].card_mint = m
        /\ Has(card_instance, m)
        /\ card_instance[m].owner = listing[m].seller

(* C5: in every reachable state, a list with price 0, or for a card that   *)
(* has a listing, fails and leaves every account as it was; a list that    *)
(* succeeds creates the listing with the given price above 0, active, with *)
(* the caller as seller, and moves the caller's card into the escrow;      *)
(* every listing has a price above 0, is active, is keyed by its card and *)
(* has as seller the recorded owner of the card.                           *)
C5_ListGuards ==
    /\ ListingsWellFormed
    /\ \A seller \in Wallets, m \in Mints, ta \in DOMAIN token_account,
          price \in Prices :
         LET l == ListCardTx(Store, seller, m, ta, price)
             post == Commit(Store, l)
         IN  /\ (price = 0 \/ Has(listing, m)) => l.err # "Ok"
             /\ (l.err # "Ok") => post = Store
             /\ (l.err = "Ok") =>
                   /\ ~Has(listing, m)
                   /\ post.listing[m].seller = seller
                   /\ post.listing[m].price = price /\ price > 0
                   /\ post.listing[m].is_active
                   /\ TokenOf(token_account, seller, m) = 1
                   /\ TokenOf(post.token_account, seller, m) = 0
                   /\ post.escrow_token_account[m] = 1
                   /\ \A k \in DOMAIN listing : post.listing[k] = listing[k]

C5_Witness ==
    /\ last.op = "list_card" /\ last.err = "AccountInUse"
    /\ Has(listing, last.mint)
    /\ listing[last.mint].seller # last.caller

(* C6: a cancel succeeds only on an existing, active listing and only for  *)
(* its recorded seller; it then returns the card to the seller and removes *)
(* the listing.  A cancel of an existing listing by any other caller fails *)
(* with Unauthorized and changes no account.                               *)
C6_CancelBySellerOnly ==
    [][(last'.op = "cancel_listing") =>
        LET m == last'.mint
            c == last'.caller
        IN  /\ (last'.err = "Ok") =>
                  /\ Has(listing, m) /\ listing[m].is_active
                  /\ c = listing[m].seller
                  /\ TokenOf(token_account', c, m)
                        = TokenOf(token_account, c, m) + 1
                  /\ ~Has(escrow_token_account', m)
                  /\ ~Has(listing', m)
                  /\ player_profile' = player_profile
                  /\ card_instance' = card_instance
            /\ (Has(listing, m) /\ c # listing[m].seller) =>
                  /\ last'.err = "Unauthorized"
                  /\ UNCHANGED accounts
            /\ (last'.err # "Ok") => UNCHANGED accounts]_vars

C6_Witness ==
    /\ last.op = "cancel_listing" /\ last.err = "Unauthorized"
    /\ Has(listing, last.mint)
    /\ listing[last.mint].seller # last.caller
    /\ escrow_token_account[last.mint] = 1

(* C7: a buy by the listing's seller, and a buy by a buyer whose balance   *)
(* is below the price, are rejected and change no account: the listing     *)
(* stays active, the card stays in escrow, the CardInstance owner and all  *)
(* balances stay.                                                          *)
C7_BuyRejected ==
    [][(last'.op = "buy_card" /\ Has(listing, last'.mint)) =>
        LET m == last'.mint
            b == last'.caller
        IN  ( \/ b = listing[m].seller
              \/ ( /\ Has(player_profile, b)
                   /\ player_profile[b].bug_balance < listing[m].price ) )
            => /\ last'.err # "Ok"
               /\ UNCHANGED accounts
               /\ listing'[m].is_active
               /\ escrow_token_account'[m] = 1]_vars

C7_Witness ==
    /\ last.op = "buy_card" /\ last.err = "CannotBuyOwnCard"
    /\ Has(listing, last.mint) /\ listing[last.mint].seller = last.caller
    /\ player_profile[last.caller].bug_balance >= listing[last.mint].price

C7_WitnessBalance ==
    /\ last.op = "buy_card" /\ last.err = "InsufficientBalance"
    /\ Has(listing, last.mint)
    /\ player_profile[last.caller].bug_balance < listing[last.mint].price

(* C8: a card's listing is Active exactly while its Listing account        *)
(* exists; a successful buy or cancel happens only on an Active listing    *)
(* and resolves it to Sold or Cancelled; on a card whose listing is not    *)
(* Active every buy and every cancel fails and changes no account; only a  *)
(* successful list makes the card's listing Active again.                  *)
C8_ListingLifecycle ==
    [][/\ \A m \in Mints : (listing_state[m] = "Active") <=> Has(listing, m)
       /\ \A m \in Mints : (listing_state'[m] = "Active") <=> Has(listing', m)
       /\ \A m \in Mints :
            /\ (Has(listing, m) /\ ~Has(listing', m)) =>
                  /\ last'.mint = m /\ last'.err = "Ok"
                  /\ \/ last'.op = "buy_card" /\ listing_state'[m] = "Sold"
                     \/ last'.op = "cancel_listing"
                          /\ listing_state'[m] = "Cancelled"
            /\ (~Has(listing, m) /\ Has(listing', m)) =>
                  /\ last'.op = "list_card" /\ last'.mint = m
                  /\ last'.err = "Ok"
            /\ (listing_state[m] \in {"Sold", "Cancelled"}
                  /\ listing_state'[m] # listing_state[m]) =>
                  /\ last'.op = "list_card" /\ listing_state'[m] = "Active"
       /\ (last'.op \in {"buy_card", "cancel_listing"}
             /\ listing_state[last'.mint] # "Active") =>
            /\ last'.err # "Ok"
            /\ UNCHANGED accounts
            /\ listing_state' = listing_state
      ]_vars

C8_Witness ==
    /\ last.op \in {"buy_card", "cancel_listing"}
    /\ last.err = "AccountNotInitialized"
    /\ listing_state[last.mint] = "Sold"
    /\ ~Has(listing, last.mint)
    /\ sales = 1

(* number of tokens of card m held by wallets and by the escrow *)
RECURSIVE HeldBy(_, _, _)
HeldBy(tacc, ws, m) ==
    IF ws = {} THEN 0
    ELSE LET w == CHOOSE x \in ws : TRUE
         IN  TokenOf(tacc, w, m) + HeldBy(tacc, ws \ {w}, m)

Custody(m) == HeldBy(token_account, Wallets, m) + EscrowOf(escrow_token_account, m)

(* C9: every card that has a CardInstance is held exactly once, by one     *)
(* wallet or by the escrow of its listing, and a card without one is held  *)
(* by nobody; a wallet that holds a card is its recorded owner; a          *)
(* CardInstance is never removed and its card, type and stats never        *)
(* change; a draw on a card that already has a CardInstance fails and      *)
(* changes no account.                                                     *)
C9_ExclusiveOwnership ==
    [][/\ \A m \in Mints :
            /\ Custody(m) = (IF Has(card_instance, m) THEN 1 ELSE 0)
            /\ Custody(m)' = (IF Has(card_instance', m) THEN 1 ELSE 0)
            /\ \A w \in Wallets :
                  TokenOf(token_account', w, m) = 1
                      => card_instance'[m].owner = w
            /\ Has(card_instance, m) =>
                  /\ Has(card_instance', m)
                  /\ card_instance'[m].mint = m
                  /\ card_instance'[m].card_type_id
                        = card_instance[m].card_type_id
                  /\ card_instance'[m].attack = card_instance[m].attack
                  /\ card_instance'[m].health = card_instance[m].health
       /\ (last'.op = "gacha_draw" /\ Has(card_instance, last'.mint)) =>
            /\ last'.err # "Ok"
            /\ UNCHANGED accounts
      ]_vars

C9_Witness ==
    /\ last.op = "gacha_draw" /\ last.err = "AccountInUse"
    /\ Has(card_instance, last.mint)
    /\ card_instance[last.mint].owner # last.caller
    /\ EscrowOf(escrow_token_account, last.mint) = 1
    /\ sales > 0

(* C10: a successful draw was made with at least 1 ticket, takes exactly 1 *)
(* ticket from the caller and creates exactly one CardInstance, owned by   *)
(* the caller, leaving the other profiles and card records alone; a draw   *)
(* with 0 tickets fails and changes no account, and the failure is         *)
(* InsufficientTickets whenever the template exists and the card is unused *)
(* (otherwise the accounts of the instruction are rejected first).         *)
C10_DrawNeedsTicket ==
    [][(last'.op = "gacha_draw") =>
        LET p == last'.caller
            m == last'.mint
        IN  /\ (last'.err = "Ok") =>
                  /\ player_profile[p].gacha_tickets >= 1
                  /\ player_profile'[p].gacha_tickets
                        = player_profile[p].gacha_tickets - 1
                  /\ player_profile' =
                        [player_profile EXCEPT ![p].gacha_tickets = @ - 1]
                  /\ ~Has(card_instance, m)
                  /\ DOMAIN card_instance' = DOMAIN card_instance \cup {m}
                  /\ card_instance'[m].owner = p
                  /\ TokenOf(token_account', p, m) = 1
                  /\ \A k \in DOMAIN card_instance :
                        card_instance'[k] = card_instance[k]
            /\ (player_profile[p].gacha_tickets = 0) =>
                  /\ last'.err # "Ok"
                  /\ UNCHANGED accounts
                  /\ ( /\ Has(card_template, last'.card_type_id)
                       /\ ~Has(card_instance, m)
                       /\ ~Has(token_account, <<p, m>>) )
                     => last'.err = "InsufficientTickets"
            /\ (last'.err # "Ok") => UNCHANGED accounts]_vars

C10_Witness ==
    /\ last.op = "gacha_draw" /\ last.err = "InsufficientTickets"
    /\ player_profile[last.caller].gacha_tickets = 0
    /\ Has(card_template, last.card_type_id)
    /\ ~Has(card_instance, last.mint)

C10_WitnessDrawn ==
    /\ last.op = "gacha_draw" /\ last.err = "Ok"
    /\ player_profile[last.caller].gacha_tickets = FREE_STARTER_TICKETS - 1
    /\ card_instance[last.mint].owner = last.caller

----------------------------------------------------------------------------
(* The draw engine as functions of the random value.                       *)

(* roll_rarity: roll = (random_value % 100) as u8 *)
(* variant: the band boundaries belong to the lower band *)
roll_rarity_late_bands(random_value) ==
    LET roll == RandomMod(random_value, 100)
    IN  IF roll <= 70 THEN "Common"
        ELSE IF roll <= 97 THEN "Rare"
        ELSE "Legendary"
roll_rarity(random_value) ==
    LET roll == RandomMod(random_value, 100)
    IN  IF roll < 70 THEN "Common"
        ELSE IF roll < 97 THEN "Rare"
        ELSE "Legendary"

(* the inputs the draw engine is run on *)
StatRanges ==
    {<<0, 0>>, <<1, 3>>, <<2, 2>>, <<0, U16Max>>, <<U16Max, U16Max>>,
     <<U16Max - 500, U16Max>>, <<3, 1>>}
StatHalves == {0, 5, 7, 65535, 2147483647}
StatValues == [hi : StatHalves, lo : StatHalves]
RarityValues == [hi : {0, 7, 65536}, lo : 0 .. 120]

RollCardStats(mn_a, mx_a, mn_h, mx_h, v) ==
    LET stats == roll_card_stats(mn_a, mx_a, mn_h, mx_h, v) IN
    /\ \E a \in stats.attack, h \in stats.health :
          last' = [op |-> "roll_card_stats", min_attack |-> mn_a,
                   max_attack |-> mx_a, min_health |-> mn_h,
                   max_health |-> mx_h, random_value |-> v,
                   panic |-> a.panic \/ h.panic,
                   attack |-> a.val, health |-> h.val]
    /\ UNCHANGED <<accounts, listing_state, sales>>

RollRarity(v) ==
    /\ last' = [op |-> "roll_rarity", random_value |-> v,
                rarity |-> roll_rarity(v)]
    /\ UNCHANGED <<accounts, listing_state, sales>>

DrawNext ==
    \/ \E ra \in StatRanges, rh \in StatRanges, v \in StatValues :
          RollCardStats(ra[1], ra[2], rh[1], rh[2], v)
    \/ \E v \in RarityValues : RollRarity(v)

DrawSpec == Init /\ [][DrawNext]_vars

(* (hi * 2^32 + lo) mod n by doubling hi 32 times; 0 < n <= 2^16 *)
RECURSIVE ShiftMod(_, _, _)
ShiftMod(r, k, n) == IF k = 0 THEN r ELSE ShiftMod((2 * r) % n, k - 1, n)

ValueMod(v, n) == (ShiftMod(v.hi % n, 32, n) + (v.lo % n)) % n

(* C11: for a template with min <= max, the rolled attack is               *)
(* min_attack + (v mod (max_attack - min_attack + 1)) and the rolled       *)
(* health is min_health + ((v >> 32) mod (max_health - min_health + 1)),   *)
(* no 16-bit addition overflows, both values lie in the template's range,  *)
(* and a range with min = max gives exactly that value.                    *)
C11_StatRolling ==
    (last.op = "roll_card_stats"
       /\ last.min_attack <= last.max_attack
       /\ last.min_health <= last.max_health) =>
    /\ ~last.panic
    /\ last.attack = last.min_attack
          + ValueMod(last.random_value, last.max_attack - last.min_attack + 1)
    /\ last.health = last.min_health
          + (last.random_value.hi % (last.max_health - last.min_health + 1))
    /\ last.min_attack <= last.attack /\ last.attack <= last.max_attack
    /\ last.min_health <= last.health /\ last.health <= last.max_health
    /\ last.attack <= U16Max /\ last.health <= U16Max
    /\ (last.min_attack = last.max_attack => last.attack = last.min_attack)
    /\ (last.min_health = last.max_health => last.health = last.min_health)

C11_Witness ==
    /\ last.op = "roll_card_stats"
    /\ last.min_attack = 0 /\ last.max_attack = U16Max
    /\ last.min_health = 1 /\ last.max_health = 3
    /\ last.random_value.hi = 5 /\ last.random_value.lo = 65535
    /\ last.attack = U16Max /\ last.health = 3

(* the tier of a roll in 0 .. 99 *)
TierOf(roll) == roll_rarity([hi |-> 0, lo |-> roll])

C12_WitnessBoundary ==
    /\ last.op = "roll_rarity" /\ last.rarity = "Rare"
    /\ last.random_value.hi = 0 /\ last.random_value.lo = 70

----------------------------------------------------------------------------
(* The ledger instructions that spend BUG.                                 *)

(* buy_gacha_tickets *)
BuyGachaTicketsAccounts(s, player) ==
    IF ~Has(s.game_config, ConfigKey) THEN Err("AccountNotInitialized", s)
    ELSE IF ~Has(s.player_profile, player) THEN Err("AccountNotInitialized", s)
    ELSE Ok(s)

(* game_config.ticket_price.checked_mul(ticket_count) *)
(* variant: the cost is the price of one ticket *)
ticket_cost_flat(ticket_price, ticket_count) == Some(ticket_price)
ticket_cost(ticket_price, ticket_count) ==
    checked_mul(ticket_price, ticket_count, U64Max)

buy_gacha_tickets(s, player, ticket_count) ==
    LET profile == s.player_profile[player]
        total_cost == ticket_cost(s.game_config[ConfigKey].ticket_price,
                                  ticket_count)
        debit == checked_sub(profile.bug_balance, total_cost.val)
        s1 == [s EXCEPT !.player_profile[player].bug_balance = debit.val]
        tickets == checked_add(profile.gacha_tickets, ticket_count, U64Max)
    IN  IF ~(ticket_count > 0) THEN Err("InvalidAmount", s)
        ELSE IF ~total_cost.some THEN Err("NumericalOverflow", s)
        ELSE IF ~(profile.bug_balance >= total_cost.val)
             THEN Err("InsufficientBalance", s)
        ELSE IF ~debit.some THEN Err("NumericalOverflow", s)
        ELSE IF ~tickets.some THEN Err("NumericalOverflow", s1)
        ELSE Ok([s1 EXCEPT !.player_profile[player].gacha_tickets = tickets.val])

BuyGachaTicketsTx(s, player, ticket_count) ==
    LET a == BuyGachaTicketsAccounts(s, player)
    IN  IF a.err # "Ok" THEN a ELSE buy_gacha_tickets(a.st, player, ticket_count)

(* update_rarity_pool: the pool of discriminant d is created on first use  *)
MAX_CARDS == 100

UpdateRarityPoolAccounts(s, authority, d) ==
    IF ~Has(s.game_config, ConfigKey) THEN Err("AccountNotInitialized", s)
    ELSE IF s.game_config[ConfigKey].authority # authority
         THEN Err("ConstraintHasOne", s)
    ELSE Ok(IF Has(s.rarity_pool, d) THEN s
            ELSE [s EXCEPT !.rarity_pool =
                     Put(@, d, [rarity |-> "Common", card_type_ids |-> <<>>])])

(* variant: every id is pushed *)
PushAll(pool, ids) == pool \o ids

(* for id in card_type_ids: push id unless the pool contains it (the       *)
(* comparison of lengths has the list of one round computed before the     *)
(* next round starts)                                                      *)
RECURSIVE PushNew(_, _)
PushNew(pool, ids) ==
    IF ids = <<>> THEN pool
    ELSE LET next == IF \E i \in 1 .. Len(pool) : pool[i] = Head(ids)
                     THEN pool ELSE Append(pool, Head(ids))
         IN  IF Len(next) < Len(pool) THEN pool
             ELSE PushNew(next, Tail(ids))

RarityOfDiscriminant(d) ==
    CASE d = 0 -> "Common" [] d = 1 -> "Rare" [] d = 2 -> "Legendary"
      [] OTHER -> "Invalid"

(* the account holds RarityPool::LEN bytes: at exit the pool is serialized  *)
(* into them, which fails when the list has more than 100 entries          *)
(* variant: the account has room for any list *)
pool_fits_any(ids) == TRUE
pool_fits(ids) == Len(ids) <= MAX_CARDS

update_rarity_pool(s, d, card_type_ids) ==
    LET pool == s.rarity_pool[d]
        rarity == RarityOfDiscriminant(d)
        named == IF pool.card_type_ids = <<>>
                 THEN [pool EXCEPT !.rarity = rarity] ELSE pool
        ids == PushNew(named.card_type_ids, card_type_ids)
    IN  IF rarity = "Invalid" THEN Err("InvalidRarity", s)
        ELSE IF ~pool_fits(ids)
             THEN Err("AccountDidNotSerialize",
                      [s EXCEPT !.rarity_pool[d] =
                          [named EXCEPT !.card_type_ids = ids]])
        ELSE Ok([s EXCEPT !.rarity_pool[d] =
                    [named EXCEPT !.card_type_ids = ids]])

UpdateRarityPoolTx(s, authority, d, card_type_ids) ==
    LET a == UpdateRarityPoolAccounts(s, authority, d)
    IN  IF a.err # "Ok" THEN a ELSE update_rarity_pool(a.st, d, card_type_ids)

(* Rarity::to_discriminant *)
to_discriminant(rarity) ==
    CASE rarity = "Common" -> 0 [] rarity = "Rare" -> 1
      [] rarity = "Legendary" -> 2

(* select_random_card: index = (random_value as usize) % len *)
(* variant: the index is taken from the low 32 bits of the value *)
select_random_card_low_half(pool, random_value) ==
    IF pool.card_type_ids = <<>> THEN [err |-> "EmptyRarityPool", id |-> 0]
    ELSE [err |-> "Ok",
          id |-> pool.card_type_ids[
                    (random_value.lo % Len(pool.card_type_ids)) + 1]]
select_random_card(pool, random_value) ==
    IF pool.card_type_ids = <<>> THEN [err |-> "EmptyRarityPool", id |-> 0]
    ELSE [err |-> "Ok",
          id |-> pool.card_type_ids[
                    RandomMod(random_value, Len(pool.card_type_ids)) + 1]]

(* purchase_pack.  generate_random_u64 hashes the clock, the player and    *)
(* the loop index: randoms[i] is the value it gives for card i.            *)
PurchasePackAccounts(s, player) ==
    IF ~Has(s.player_profile, player) THEN Err("AccountNotInitialized", s)
    ELSE IF ~Has(s.game_config, ConfigKey) THEN Err("AccountNotInitialized", s)
    ELSE IF ~Has(s.rarity_pool, 0) THEN Err("AccountNotInitialized", s)
    ELSE IF ~Has(s.rarity_pool, 1) THEN Err("AccountNotInitialized", s)
    ELSE IF ~Has(s.rarity_pool, 2) THEN Err("AccountNotInitialized", s)
    ELSE Ok(s)

(* player_profile.bug_balance.checked_sub(pack_price) *)
(* variant: the pack is paid twice *)
pay_pack_twice(balance, pack_price) ==
    IF balance < 2 * pack_price THEN Some(0) ELSE Some(balance - 2 * pack_price)
pay_pack(balance, pack_price) == checked_sub(balance, pack_price)

(* the loop changes no account: it fails at the first card whose tier has  *)
(* an empty pool                                                           *)
purchase_pack(s, player, randoms) ==
    LET cfg == s.game_config[ConfigKey]
        pack_price == cfg.normal_pack_price
        paid == pay_pack(s.player_profile[player].bug_balance, pack_price)
        s1 == [s EXCEPT !.player_profile[player].bug_balance = paid.val]
        num_cards == cfg.starter_pack_card_count
    IN  IF ~(s.player_profile[player].bug_balance >= pack_price)
        THEN Err("InsufficientBalance", s)
        ELSE IF ~paid.some THEN Err("NumericalOverflow", s)
        ELSE IF \E i \in 1 .. num_cards :
                   select_random_card(
                       s1.rarity_pool[to_discriminant(roll_rarity(randoms[i]))],
                       randoms[i]).err # "Ok"
             THEN Err("EmptyRarityPool", s1)
        ELSE Ok(s1)

PurchasePackTx(s, player, randoms) ==
    LET a == PurchasePackAccounts(s, player)
    IN  IF a.err # "Ok" THEN a ELSE purchase_pack(a.st, player, randoms)

----------------------------------------------------------------------------
(* Pack purchases, from the state after setup.                             *)
PoolUpdates == {<<>>, <<1>>}
Discriminants == 0 .. 3
PackRandoms ==
    {[i \in 1 .. STARTER_PACK_CARD_COUNT |-> [hi |-> 0, lo |-> i]],
     [i \in 1 .. STARTER_PACK_CARD_COUNT |->
         [hi |-> 0, lo |-> IF i = 4 THEN 80 ELSE IF i = 10 THEN 99 ELSE i]],
     [i \in 1 .. STARTER_PACK_CARD_COUNT |->
         [hi |-> 7, lo |-> IF i = 1 THEN 25 ELSE 0]]}

UpdateRarityPool(authority, d, ids) ==
    /\ Submit("update_rarity_pool", authority, "none", 0,
              UpdateRarityPoolTx(Store, authority, d, ids))
    /\ UNCHANGED <<listing_state, sales>>

PurchasePack(player, randoms) ==
    LET res == PurchasePackTx(Store, player, randoms) IN
    /\ sales < MaxSales
    /\ Submit("purchase_pack", player, "none", 0, res)
    /\ sales' = IF res.err = "Ok" THEN sales + 1 ELSE sales
    /\ UNCHANGED listing_state

PackNext ==
    \/ \E a \in {Admin, "w1"}, d \in Discriminants, ids \in PoolUpdates :
          UpdateRarityPool(a, d, ids)
    \/ \E p \in Wallets, randoms \in PackRandoms : PurchasePack(p, randoms)

PackSpec == Init /\ [][PackNext]_vars

(* the tiers a pack's random values roll *)
RolledTiers(randoms) == {roll_rarity(randoms[i]) : i \in DOMAIN randoms}

PoolsExist == \A d \in 0 .. 2 : Has(rarity_pool, d)

PoolFilled(rarity) ==
    /\ Has(rarity_pool, to_discriminant(rarity))
    /\ rarity_pool[to_discriminant(rarity)].card_type_ids # <<>>

BalanceAfter(res, p) == Commit(Store, res).player_profile[p].bug_balance

----------------------------------------------------------------------------
(* The player ledger, from the empty chain.                                *)
Players == {"w1", "w2"}
MaxGranted == 5             \* tickets a profile may hold when it is granted more
HalfSol == (LAMPORTS_PER_SOL \div 2) + 1
Rates == {1, LAMPORTS_PER_SOL, U64Max}
SolAmounts == {0, ListPrice, HalfSol, RichBalance}
TicketCounts == {0, 2, U64Max}
GrantAmounts == {5, U64Max}
LongName(n) == [i \in 1 .. n |-> "x"]
Usernames ==
    {<<>>, <<" ">>, LongName(MAX_USERNAME_LEN), LongName(MAX_USERNAME_LEN + 1)}

LedgerInit ==
    /\ InitAccounts(Genesis)
    /\ sales = 0
    /\ last = [op |-> "none", caller |-> "none", mint |-> "none",
               card_type_id |-> 0, err |-> "Ok"]
    /\ listing_state = [m \in Mints |-> "Unlisted"]

(* a ledger transaction, recorded with the amount it was given *)
SubmitAmount(op, caller, amount, res) ==
    /\ last' = [op |-> op, caller |-> caller, mint |-> "none",
                card_type_id |-> 0, amount |-> amount, err |-> res.err]
    /\ Install(Commit(Store, res))

Initialize(authority, rate) ==
    /\ Submit("initialize", authority, "none", 0,
              InitializeTx(Store, authority, PackPrice, rate, TicketPrice))
    /\ UNCHANGED <<listing_state, sales>>

RegisterPlayer(player, username) ==
    /\ Submit("register_player", player, "none", 0,
              RegisterPlayerTx(Store, player, username))
    /\ UNCHANGED <<listing_state, sales>>

ClaimStarterTickets(player) ==
    /\ Submit("claim_starter_tickets", player, "none", 0,
              ClaimStarterTicketsTx(Store, player))
    /\ UNCHANGED <<listing_state, sales>>

AddGachaTickets(authority, wallet, amount) ==
    /\ Has(player_profile, wallet) =>
          player_profile[wallet].gacha_tickets <= MaxGranted
    /\ SubmitAmount("add_gacha_tickets", authority, amount,
                    AddGachaTicketsTx(Store, authority, wallet, amount))
    /\ UNCHANGED <<listing_state, sales>>

BuyBugTokens(player, sol_amount) ==
    LET res == BuyBugTokensTx(Store, player, sol_amount) IN
    /\ sales < MaxSales
    /\ SubmitAmount("buy_bug_tokens", player, sol_amount, res)
    /\ sales' = IF res.err = "Ok" THEN sales + 1 ELSE sales
    /\ UNCHANGED listing_state

BuyGachaTickets(player, ticket_count) ==
    LET res == BuyGachaTicketsTx(Store, player, ticket_count) IN
    /\ sales < MaxSales
    /\ SubmitAmount("buy_gacha_tickets", player, ticket_count, res)
    /\ sales' = IF res.err = "Ok" THEN sales + 1 ELSE sales
    /\ UNCHANGED listing_state

LedgerNext ==
    \/ \E r \in Rates : Initialize(Admin, r)
    \/ \E p \in Players, u \in Usernames : RegisterPlayer(p, u)
    \/ \E p \in Players : ClaimStarterTickets(p)
    \/ \E a \in {Admin, "w1"}, w \in Players, n \in GrantAmounts :
          AddGachaTickets(a, w, n)
    \/ \E p \in Players, n \in SolAmounts : BuyBugTokens(p, n)
    \/ \E p \in Players, n \in TicketCounts : BuyGachaTickets(p, n)

LedgerSpec == LedgerInit /\ [][LedgerNext]_vars

(* C14: buying `count` tickets at ticket price `price` fails when count is *)
(* 0, when price * count overflows, and when the BUG balance is below      *)
(* price * count; a purchase that succeeds takes exactly price * count     *)
(* from the BUG balance, adds exactly count to the ticket balance and      *)
(* changes nothing else; a purchase that fails changes no account.         *)
C14_BuyTickets ==
    Has(game_config, ConfigKey) =>
    \A p \in DOMAIN player_profile, count \in TicketCounts \cup {1} :
        LET res == BuyGachaTicketsTx(Store, p, count)
            price == game_config[ConfigKey].ticket_price
            B == player_profile[p].bug_balance
            T == player_profile[p].gacha_tickets
            overflows == price # 0 /\ count > U64Max \div price
        IN  /\ (count = 0) => res.err = "InvalidAmount"
            /\ (count > 0 /\ overflows) => res.err = "NumericalOverflow"
            /\ (count > 0 /\ ~overflows /\ B < price * count) =>
                  res.err = "InsufficientBalance"
            /\ (res.err = "Ok") =>
                  /\ count > 0 /\ ~overflows /\ B >= price * count
                  /\ Commit(Store, res) =
                        [Store EXCEPT
                            !.player_profile[p].bug_balance
                                = B - price * count,
                            !.player_profile[p].gacha_tickets = T + count]
            /\ (res.err # "Ok") => Commit(Store, res) = Store

(* a purchase that failed on the ticket balance after the BUG debit *)
C14_Witness ==
    /\ last.op = "buy_gacha_tickets" /\ last.err = "NumericalOverflow"
    /\ last.amount = 2
    /\ player_profile[last.caller].gacha_tickets = U64Max
    /\ player_profile[last.caller].bug_balance = ListPrice

C14_WitnessBought ==
    /\ last.op = "buy_gacha_tickets" /\ last.err = "Ok" /\ last.amount = 2
    /\ player_profile[last.caller].gacha_tickets = FREE_STARTER_TICKETS + 2
    /\ player_profile[last.caller].bug_balance = ListPrice - 2 * TicketPrice

(* floor(a * b / d) itself, for quotients below 2^31 - 1 *)
ExactMulDiv(a, b, d) == MulDivRec(a, b, d, 2147483647).q

(* C15: buying BUG with external amount 0, or with a converted amount of   *)
(* 0, fails; a purchase that succeeds credits exactly                      *)
(* floor(amount * rate / 1_000_000_000), not a truncation of it.           *)
C15_ExactConversion ==
    Has(game_config, ConfigKey) =>
    \A p \in DOMAIN player_profile, sol \in SolAmounts :
        LET res == BuyBugTokensTx(Store, p, sol)
            rate == game_config[ConfigKey].sol_to_bug_rate
            exact == ExactMulDiv(sol, rate, LAMPORTS_PER_SOL)
            B == player_profile[p].bug_balance
        IN  /\ (sol = 0) => res.err # "Ok"
            /\ (exact = 0) => res.err # "Ok"
            /\ (res.err = "Ok") =>
                  /\ exact <= U64Max - B
                  /\ Commit(Store, res).player_profile[p].bug_balance
                        = B + exact

(* the purchase whose converted amount does not fit 64 bits *)
C15_Truncated ==
    /\ last.op = "buy_bug_tokens" /\ last.err = "Ok"
    /\ last.amount = RichBalance
    /\ game_config[ConfigKey].sol_to_bug_rate = U64Max
    /\ player_profile[last.caller].bug_balance
          < ExactMulDiv(RichBalance, U64Max, LAMPORTS_PER_SOL)

(* C16: a BUG purchase whose transfer the payer cannot cover fails; a      *)
(* purchase that fails on the credit has made the transfer in memory and   *)
(* is rolled back; a failed purchase changes no account; a purchase that   *)
(* succeeds moves exactly the amount from the payer to the treasury,       *)
(* raises the payer's BUG balance and changes nothing else.                *)
C16_PaymentAndCredit ==
    Has(game_config, ConfigKey) =>
    \A p \in DOMAIN player_profile, sol \in SolAmounts :
        LET res == BuyBugTokensTx(Store, p, sol)
            post == Commit(Store, res)
            bug == MulDivU64(sol, game_config[ConfigKey].sol_to_bug_rate,
                             LAMPORTS_PER_SOL)
            B == player_profile[p].bug_balance
        IN  /\ (sol > 0 /\ bug > 0 /\ lamports[p] < sol) =>
                  res.err = "InsufficientFunds"
            /\ (res.err = "NumericalOverflow") =>
                  /\ res.st.lamports[p] = lamports[p] - sol
                  /\ res.st.lamports[Treasury] = lamports[Treasury] + sol
                  /\ res.st.player_profile = player_profile
            /\ (res.err # "Ok") => post = Store
            /\ (res.err = "Ok") =>
                  /\ sol > 0 /\ lamports[p] >= sol
                  /\ post.player_profile[p].bug_balance > B
                  /\ post =
                       [Store EXCEPT
                          !.lamports[p] = @ - sol,
                          !.lamports[Treasury] = @ + sol,
                          !.player_profile[p].bug_balance = B + bug]

(* a purchase that failed on the credit after the transfer *)
C16_Witness ==
    /\ last.op = "buy_bug_tokens" /\ last.err = "NumericalOverflow"
    /\ last.amount = HalfSol
    /\ lamports[last.caller] = RichBalance - HalfSol
    /\ lamports[Treasury] = HalfSol
    /\ player_profile[last.caller].bug_balance > 0

(* a purchase that failed on the transfer *)
C16_WitnessTransfer ==
    /\ last.op = "buy_bug_tokens" /\ last.err = "InsufficientFunds"
    /\ lamports[last.caller] < last.amount
    /\ player_profile[last.caller].bug_balance = 0

(* C17: claiming the starter tickets succeeds only on a profile whose      *)
(* claim flag is unset and sets the flag; no ledger operation unsets the   *)
(* flag or removes the profile; a claim on a profile whose flag is set     *)
(* fails with StarterPackAlreadyClaimed and changes no account.            *)
C17_ClaimOnce ==
    [][ /\ \A p \in DOMAIN player_profile :
              /\ p \in DOMAIN player_profile'
              /\ player_profile[p].has_claimed_starter_pack =>
                    player_profile'[p].has_claimed_starter_pack
        /\ (/\ last'.op = "claim_starter_tickets"
            /\ Has(player_profile, last'.caller)) =>
              IF player_profile[last'.caller].has_claimed_starter_pack
              THEN /\ last'.err = "StarterPackAlreadyClaimed"
                   /\ Store' = Store
              ELSE /\ last'.err = "Ok"
                   /\ player_profile'[last'.caller].has_claimed_starter_pack
      ]_vars

(* a second claim, refused on a profile that holds the first grant *)
C17_Witness ==
    /\ last.op = "claim_starter_tickets"
    /\ last.err = "StarterPackAlreadyClaimed"
    /\ player_profile[last.caller].has_claimed_starter_pack
    /\ player_profile[last.caller].gacha_tickets = FREE_STARTER_TICKETS

(* C18: a successful claim of the starter tickets leaves the profile with  *)
(* the tickets it held before plus 10, whatever it held before, and fails  *)
(* instead of succeeding when that sum does not fit 64 bits.               *)
C18_GrantAdds ==
    \A p \in DOMAIN player_profile :
        LET res == ClaimStarterTicketsTx(Store, p)
            T == player_profile[p].gacha_tickets
        IN  (res.err = "Ok") =>
               /\ T <= U64Max - FREE_STARTER_TICKETS
               /\ Commit(Store, res).player_profile[p].gacha_tickets
                     = T + FREE_STARTER_TICKETS

(* an unclaimed profile that already holds tickets *)
C18_Witness ==
    /\ last.op = "add_gacha_tickets" /\ last.err = "Ok"
    /\ \E p \in DOMAIN player_profile :
          /\ ~player_profile[p].has_claimed_starter_pack
          /\ player_profile[p].gacha_tickets = last.amount
          /\ last.amount > 0

(* the usernames a registration is tried with *)
NamesTried == Usernames \cup {<<"a">>, <<" ", "a", " ">>, <<" ", " ">>}

(* C19: registering a wallet that has no profile fails and creates no      *)
(* profile when the username is empty, is whitespace only or is longer     *)
(* than 32 bytes; otherwise it succeeds and creates exactly one profile,   *)
(* keyed by the caller, holding the username, zero tickets, zero BUG, zero *)
(* trophies, wins, losses and streak, and an unset claim flag.             *)
C19_Register ==
    \A p \in Players, u \in NamesTried :
        ~Has(player_profile, p) =>
            LET res == RegisterPlayerTx(Store, p, u)
                bad == \/ \A i \in 1 .. Len(u) : u[i] = " "
                       \/ Len(u) > MAX_USERNAME_LEN
            IN  IF bad
                THEN /\ res.err \in {"EmptyString", "StringTooLong"}
                     /\ Commit(Store, res) = Store
                ELSE /\ res.err = "Ok"
                     /\ Commit(Store, res) =
                          [Store EXCEPT !.player_profile = Put(@, p,
                              [wallet |-> p, username |-> u,
                               has_claimed_starter_pack |-> FALSE,
                               gacha_tickets |-> 0, bug_balance |-> 0,
                               trophies |-> 0, total_wins |-> 0,
                               total_losses |-> 0, win_streak |-> 0])]

(* a registration under the longest username allowed *)
C19_Witness ==
    /\ last.op = "register_player" /\ last.err = "Ok"
    /\ Has(player_profile, last.caller)
    /\ Len(player_profile[last.caller].username) = MAX_USERNAME_LEN
    /\ player_profile[last.caller].gacha_tickets = 0
    /\ ~player_profile[last.caller].has_claimed_starter_pack

(* a registration refused for its username *)
C19_WitnessRefused ==
    /\ last.op = "register_player"
    /\ last.err \in {"EmptyString", "StringTooLong"}
    /\ ~Has(player_profile, last.caller)

(* C20: registering a wallet that already has a profile fails, whatever    *)
(* the username, and changes no account: the profile keeps its username,   *)
(* balances, trophies, counters and claim flag.                            *)
C20_RegisterTwice ==
    \A p \in DOMAIN player_profile, u \in NamesTried :
        LET res == RegisterPlayerTx(Store, p, u)
        IN  /\ res.err = "AccountInUse"
            /\ Commit(Store, res) = Store

(* a second registration refused on a profile that holds tickets and BUG *)
C20_Witness ==
    /\ last.op = "register_player" /\ last.err = "AccountInUse"
    /\ player_profile[last.caller].has_claimed_starter_pack
    /\ player_profile[last.caller].gacha_tickets > 0
    /\ player_profile[last.caller].bug_balance > 0

----------------------------------------------------------------------------
(* Match results.                                                          *)

(* RecordMatchResult: the two profiles and the configuration must exist,   *)
(* and the signer must be the configuration's authority.  The two profile  *)
(* fields may name the same account.  Whether the framework refuses two    *)
(* mutable fields on one account depends on its version, which the source  *)
(* does not pin: dup_check is TRUE for a build that refuses them.          *)
RecordMatchResultAccounts(s, authority, winner, loser, dup_check) ==
    IF ~Has(s.player_profile, winner) \/ ~Has(s.player_profile, loser)
       \/ ~Has(s.game_config, ConfigKey)
    THEN Err("AccountNotInitialized", s)
    ELSE IF dup_check /\ winner = loser
         THEN Err("ConstraintDuplicateMutableAccount", s)
    ELSE IF s.game_config[ConfigKey].authority # authority
         THEN Err("ConstraintHasOne", s)
    ELSE Ok(s)

(* The exit step: winner_profile is written back first, loser_profile      *)
(* second, each from its own in-memory copy.                               *)
MatchExit(s, winner, wp, loser, lp) ==
    [s EXCEPT !.player_profile =
        [p \in DOMAIN @ |-> IF p = loser THEN lp
                            ELSE IF p = winner THEN wp ELSE @[p]]]

(* variant: the streak bonus is left out of the gain *)
trophy_gain_flat(win_streak) == Some(BASE_TROPHY_GAIN)

(* BASE_TROPHY_GAIN.checked_add(winner_profile.win_streak) *)
trophy_gain(win_streak) == checked_add(BASE_TROPHY_GAIN, win_streak, U32Max)

(* variant: a loser below the loss keeps its trophies *)
lose_trophies_or_keep(trophies) ==
    IF trophies < TROPHY_LOSS THEN trophies ELSE trophies - TROPHY_LOSS

(* loser_profile.trophies.saturating_sub(TROPHY_LOSS) *)
lose_trophies(trophies) == saturating_sub(trophies, TROPHY_LOSS)

(* variant: the loser keeps its streak *)
reset_streak_kept(win_streak) == win_streak

(* loser_profile.win_streak = 0 *)
reset_streak(win_streak) == 0

record_match_result(s, winner, loser) ==
    LET w0 == s.player_profile[winner]
        l0 == s.player_profile[loser]
        streak == checked_add(w0.win_streak, 1, U32Max)
        w1 == [w0 EXCEPT !.win_streak = streak.val]
        gain == trophy_gain(w1.win_streak)
        trophies == checked_add(w1.trophies, gain.val, U32Max)
        w2 == [w1 EXCEPT !.trophies = trophies.val]
        l1 == [l0 EXCEPT !.trophies = lose_trophies(@),
                         !.win_streak = reset_streak(@)]
        wins == checked_add(w2.total_wins, 1, U32Max)
        w3 == [w2 EXCEPT !.total_wins = wins.val]
        losses == checked_add(l1.total_losses, 1, U32Max)
        l2 == [l1 EXCEPT !.total_losses = losses.val]
        bug == checked_add(w3.bug_balance, WIN_REWARD, U64Max)
        w4 == [w3 EXCEPT !.bug_balance = bug.val]
    IN  IF ~streak.some THEN Err("NumericalOverflow", s)
        ELSE IF ~gain.some
             THEN Err("NumericalOverflow", MatchExit(s, winner, w1, loser, l0))
        ELSE IF ~trophies.some
             THEN Err("NumericalOverflow", MatchExit(s, winner, w1, loser, l0))
        ELSE IF ~wins.some
             THEN Err("NumericalOverflow", MatchExit(s, winner, w2, loser, l1))
        ELSE IF ~losses.some
             THEN Err("NumericalOverflow", MatchExit(s, winner, w3, loser, l1))
        ELSE IF ~bug.some
             THEN Err("NumericalOverflow", MatchExit(s, winner, w3, loser, l2))
        ELSE Ok(MatchExit(s, winner, w4, loser, l2))

RecordMatchResultTx(s, authority, winner, loser, dup_check) ==
    LET a == RecordMatchResultAccounts(s, authority, winner, loser, dup_check)
    IN  IF a.err # "Ok" THEN a ELSE record_match_result(a.st, winner, loser)

----------------------------------------------------------------------------
(* Matches, from ledgers the program can reach.                            *)
MaxMatches == 3             \* successful matches in one behaviour

(* The profiles of a and b after `rounds` rounds in which a beat b and     *)
(* then b beat a: each win of a starts from streak 0 and gains 31, each    *)
(* loss costs 30 except b's first, taken at 0 trophies.                    *)
AfterRivalry(s, a, b, rounds) ==
    [s EXCEPT
        !.player_profile[a] =
            [@ EXCEPT !.trophies = rounds, !.win_streak = 0,
                      !.total_wins = rounds, !.total_losses = rounds,
                      !.bug_balance = @ + WIN_REWARD * rounds],
        !.player_profile[b] =
            [@ EXCEPT !.trophies = BASE_TROPHY_GAIN + rounds, !.win_streak = 1,
                      !.total_wins = rounds, !.total_losses = rounds,
                      !.bug_balance = @ + WIN_REWARD * rounds]]

(* w2 is one win short of overflowing its trophies, w3 holds the most     *)
(* trophies a profile can hold                                             *)
Seasoned == AfterRivalry(Bootstrap, "w2", "w3", U32Max - BASE_TROPHY_GAIN)

(* w3 has lost every one of the most matches a profile can count, against  *)
(* profiles of wallets other than these three                              *)
Beaten == [Bootstrap EXCEPT !.player_profile["w3"].total_losses = U32Max]

MatchStarts == {Bootstrap, Seasoned, Beaten}

MatchInit ==
    /\ \E st \in MatchStarts : InitAccounts(st)
    /\ sales = 0
    /\ last = [op |-> "none", caller |-> "none", mint |-> "none",
               card_type_id |-> 0, err |-> "Ok"]
    /\ listing_state = [m \in Mints |-> "Unlisted"]

RecordMatchResult(authority, winner, loser, dup_check) ==
    LET res == RecordMatchResultTx(Store, authority, winner, loser, dup_check)
    IN  /\ sales < MaxMatches
        /\ last' = [op |-> "record_match_result", caller |-> authority,
                    winner |-> winner, loser |-> loser,
                    dup_check |-> dup_check, err |-> res.err]
        /\ Install(Commit(Store, res))
        /\ sales' = IF res.err = "Ok" THEN sales + 1 ELSE sales
        /\ UNCHANGED listing_state

MatchNext ==
    \E authority \in {Admin, "w1"}, winner \in Wallets, loser \in Wallets,
       dup_check \in BOOLEAN :
        RecordMatchResult(authority, winner, loser, dup_check)

MatchSpec == MatchInit /\ [][MatchNext]_vars

----------------------------------------------------------------------------
(* the record a match leaves for the profile p *)
ProfileAfter(res, p) == Commit(Store, res).player_profile[p]

(* what a successful match res does for its winner w, and what a second   *)
(* win straight after it (again) adds                                      *)
WinnerGains(w, res, again) ==
    LET before == player_profile[w]
        after == ProfileAfter(res, w)
    IN  (res.err = "Ok") =>
              /\ after.win_streak = before.win_streak + 1
              /\ after.trophies
                    = before.trophies + 30 + (before.win_streak + 1)
              /\ after.total_wins = before.total_wins + 1
              /\ after.bug_balance = before.bug_balance + 100
              /\ after.bug_balance <= U64Max
              /\ after.trophies <= U32Max
              /\ (before.win_streak = 0) =>
                    after.trophies = before.trophies + 31
              /\ (again.err = "Ok") =>
                    again.st.player_profile[w].trophies - after.trophies
                       = (after.trophies - before.trophies) + 1

(* C21: every successful match raises the winner's win streak by 1, adds  *)
(* 30 plus the raised streak to the winner's trophies, adds 1 to its       *)
(* total wins and 100 to its BUG balance; a winner at streak 0 gains 31,   *)
(* and a second win straight after gains exactly one more than the first.  *)
C21_WinnerGains ==
    \A w \in DOMAIN player_profile, l \in DOMAIN player_profile,
       dup_check \in BOOLEAN :
        LET res == RecordMatchResultTx(Store, Admin, w, l, dup_check)
        IN  WinnerGains(w, res,
                RecordMatchResultTx(Commit(Store, res), Admin, w, l,
                                    dup_check))

(* the same, for matches between two different profiles only *)
C21_WinnerGainsDistinct ==
    \A w \in DOMAIN player_profile, dup_check \in BOOLEAN :
    \A l \in DOMAIN player_profile \ {w} :
        LET res == RecordMatchResultTx(Store, Admin, w, l, dup_check)
        IN  WinnerGains(w, res,
                RecordMatchResultTx(Commit(Store, res), Admin, w, l,
                                    dup_check))

(* a match won by a new profile against itself: recorded as a loss only *)
C21_Witness ==
    /\ last.op = "record_match_result" /\ last.err = "Ok"
    /\ last.winner = last.loser
    /\ player_profile[last.winner].win_streak = 0
    /\ player_profile[last.winner].trophies = 0
    /\ player_profile[last.winner].total_wins = 0
    /\ player_profile[last.winner].total_losses = 1
    /\ player_profile[last.winner].bug_balance = ListPrice

(* two wins in a row from a new profile: 31 and then 32 trophies *)
C21_WitnessStreak ==
    /\ last.op = "record_match_result" /\ last.err = "Ok"
    /\ last.winner # last.loser
    /\ player_profile[last.winner].win_streak = 2
    /\ player_profile[last.winner].trophies = 63
    /\ player_profile[last.winner].total_wins = 2
    /\ player_profile[last.winner].bug_balance = ListPrice + 200

(* C22: a successful match leaves the loser with its trophies less 30, or  *)
(* with 0 when it held fewer than 30, with win streak 0 and with one more  *)
(* loss; holding fewer than 30 trophies never makes the match fail; and in *)
(* every reachable state every profile's trophies are at least 0.          *)
C22_LoserLoses ==
    /\ \A p \in DOMAIN player_profile :
          player_profile[p].trophies >= 0 /\ player_profile[p].trophies <= U32Max
    /\ \A w \in DOMAIN player_profile, l \in DOMAIN player_profile,
          dup_check \in BOOLEAN :
        LET res == RecordMatchResultTx(Store, Admin, w, l, dup_check)
            before == player_profile[l]
            after == ProfileAfter(res, l)
            topped == [Store EXCEPT !.player_profile[l].trophies = 30]
        IN  /\ (res.err = "Ok") =>
                  /\ after.trophies =
                        IF before.trophies < 30 THEN 0
                        ELSE before.trophies - 30
                  /\ after.win_streak = 0
                  /\ after.total_losses = before.total_losses + 1
            /\ (before.trophies < 30) =>
                  res.err = RecordMatchResultTx(topped, Admin, w, l,
                                                dup_check).err

(* a profile that won once, lost down to 1 trophy and lost again *)
C22_Witness ==
    /\ last.op = "record_match_result" /\ last.err = "Ok"
    /\ last.winner # last.loser
    /\ player_profile[last.loser].trophies = 0
    /\ player_profile[last.loser].win_streak = 0
    /\ player_profile[last.loser].total_wins = 1
    /\ player_profile[last.loser].total_losses = 2

----------------------------------------------------------------------------
(* Creator list, rolls and decks.                                          *)

(* add_card_creator *)
AddCardCreatorAccounts(s, authority) ==
    IF ~Has(s.game_config, ConfigKey) THEN Err("AccountNotInitialized", s)
    ELSE IF s.game_config[ConfigKey].authority # authority
         THEN Err("ConstraintHasOne", s)
    ELSE Ok(s)

add_card_creator(s, new_creator) ==
    IF ~(Len(s.game_config[ConfigKey].card_creators) < MAX_CARD_CREATORS)
    THEN Err("CardCreatorsListFull", s)
    ELSE Ok([s EXCEPT !.game_config[ConfigKey].card_creators =
                Append(@, new_creator)])

AddCardCreatorTx(s, authority, new_creator) ==
    LET a == AddCardCreatorAccounts(s, authority)
    IN  IF a.err # "Ok" THEN a ELSE add_card_creator(a.st, new_creator)

(* roll_gacha: a view; it returns the card type selected and writes no     *)
(* account                                                                 *)
RollGachaAccounts(s, player) ==
    IF ~Has(s.rarity_pool, 0) THEN Err("AccountNotInitialized", s)
    ELSE IF ~Has(s.rarity_pool, 1) THEN Err("AccountNotInitialized", s)
    ELSE IF ~Has(s.rarity_pool, 2) THEN Err("AccountNotInitialized", s)
    ELSE Ok(s)

(* variant: the roll takes a ticket from the signer's profile *)
roll_gacha_charged(s, player, random_value) ==
    LET rarity == roll_rarity(random_value)
        sel == select_random_card(s.rarity_pool[to_discriminant(rarity)],
                                  random_value)
    IN  [err |-> sel.err,
         st |-> IF Has(s.player_profile, player)
                   /\ s.player_profile[player].gacha_tickets > 0
                THEN [s EXCEPT !.player_profile[player].gacha_tickets = @ - 1]
                ELSE s,
         rarity |-> rarity, card_type_id |-> sel.id]
roll_gacha(s, player, random_value) ==
    LET rarity == roll_rarity(random_value)
        sel == select_random_card(s.rarity_pool[to_discriminant(rarity)],
                                  random_value)
    IN  [err |-> sel.err, st |-> s, rarity |-> rarity,
         card_type_id |-> sel.id]

RollGachaTx(s, player, random_value) ==
    LET a == RollGachaAccounts(s, player)
    IN  IF a.err # "Ok"
        THEN [err |-> a.err, st |-> s, rarity |-> "Common", card_type_id |-> 0]
        ELSE roll_gacha(a.st, player, random_value)

(* PlayerDeck::MAX_DECKS, MAX_CARDS, MAX_NAME_LEN *)
MAX_DECKS == 5
DECK_MAX_CARDS == 10
DECK_MAX_NAME_LEN == 32

(* save_deck: the deck account is created if the player has none at this   *)
(* index                                                                   *)
SaveDeckAccounts(s, player, deck_index) ==
    Ok(IF Has(s.player_deck, <<player, deck_index>>) THEN s
       ELSE [s EXCEPT !.player_deck = Put(@, <<player, deck_index>>,
                [owner |-> DefaultPubkey, deck_index |-> 0,
                 deck_name |-> <<>>, card_mints |-> <<>>,
                 is_active |-> FALSE])])

save_deck(s, player, deck_index, deck_name, card_mints) ==
    IF ~(deck_index < MAX_DECKS) THEN Err("InvalidDeckIndex", s)
    ELSE IF ~(Len(card_mints) <= DECK_MAX_CARDS)
         THEN Err("TooManyCardsInDeck", s)
    ELSE IF validate_string_length(deck_name, DECK_MAX_NAME_LEN) # "Ok"
         THEN Err("StringTooLong", s)
    ELSE Ok([s EXCEPT !.player_deck[<<player, deck_index>>] =
                [owner |-> player, deck_index |-> deck_index,
                 deck_name |-> deck_name, card_mints |-> card_mints,
                 is_active |-> TRUE]])

SaveDeckTx(s, player, deck_index, deck_name, card_mints) ==
    LET a == SaveDeckAccounts(s, player, deck_index)
    IN  IF a.err # "Ok" THEN a
        ELSE save_deck(a.st, player, deck_index, deck_name, card_mints)

(* delete_deck *)
DeleteDeckAccounts(s, player, deck_index) ==
    IF ~Has(s.player_deck, <<player, deck_index>>)
    THEN Err("AccountNotInitialized", s)
    ELSE IF s.player_deck[<<player, deck_index>>].owner # player
         THEN Err("Unauthorized", s)
    ELSE Ok(s)

delete_deck(s, player, deck_index) ==
    Ok([s EXCEPT !.player_deck[<<player, deck_index>>] =
            [@ EXCEPT !.is_active = FALSE, !.card_mints = <<>>,
                      !.deck_name = <<>>]])

DeleteDeckTx(s, player, deck_index) ==
    LET a == DeleteDeckAccounts(s, player, deck_index)
    IN  IF a.err # "Ok" THEN a ELSE delete_deck(a.st, player, deck_index)

----------------------------------------------------------------------------
(* Every instruction, submitted once on each of a set of ledgers the       *)
(* program can reach.  Each ledger is the result of running the            *)
(* transactions named in its definition.                                   *)

(* the ledger after the transaction Tx has run on the ledger prev; prev   *)
(* is evaluated once                                                       *)
After(prev, Tx(_)) == CHOOSE t \in {Commit(s, Tx(s)) : s \in {prev}} : TRUE

(* a ledger whose rate is the largest, on which w1 has converted half of   *)
(* its SOL                                                                 *)
HalfFundedConfig ==
    After(Genesis, LAMBDA s : InitializeTx(s, Admin, PackPrice, U64Max,
                                           TicketPrice))
HalfFundedProfile ==
    After(HalfFundedConfig, LAMBDA s : RegisterPlayerTx(s, "w1", Username))
HalfFunded ==
    After(HalfFundedProfile, LAMBDA s : BuyBugTokensTx(s, "w1", HalfSol))

(* the marketplace ledger: w1 is a card creator, the Common pool holds     *)
(* card type 1 and the other pools are empty, w1 holds the most tickets a  *)
(* profile can hold                                                        *)
MarketCreator == After(Bootstrap, LAMBDA s : AddCardCreatorTx(s, Admin, "w1"))
MarketCommon ==
    After(MarketCreator, LAMBDA s : UpdateRarityPoolTx(s, Admin, 0, <<1>>))
MarketRare ==
    After(MarketCommon, LAMBDA s : UpdateRarityPoolTx(s, Admin, 1, <<>>))
MarketPools ==
    After(MarketRare, LAMBDA s : UpdateRarityPoolTx(s, Admin, 2, <<>>))
MarketTickets ==
    After(MarketPools,
          LAMBDA s : AddGachaTicketsTx(s, Admin, "w1",
                                       U64Max - FREE_STARTER_TICKETS))

(* a draw of card type 1 that succeeds *)
Drew(s, p, m) ==
    CHOOSE r \in GachaDrawTx(s, p, 1, m, [hi |-> 0, lo |-> 0]) : r.err = "Ok"

(* w1 has drawn m1, put it in its deck 0 and listed it; w2 has drawn m2 *)
MarketDrawnRich == After(MarketTickets, LAMBDA s : Drew(s, "w1", "m1"))
MarketDrawn == After(MarketDrawnRich, LAMBDA s : Drew(s, "w2", "m2"))
MarketDeck ==
    After(MarketDrawn, LAMBDA s : SaveDeckTx(s, "w1", 0, Username, <<"m1">>))
MarketListed ==
    After(MarketDeck,
          LAMBDA s : ListCardTx(s, "w1", "m1", <<"w1", "m1">>, ListPrice))

(* and w2 has listed m2, which w1 has bought *)
MarketOffered ==
    After(MarketListed,
          LAMBDA s : ListCardTx(s, "w2", "m2", <<"w2", "m2">>, ListPrice))
MarketSold == After(MarketOffered, LAMBDA s : BuyCardTx(s, "w1", "m2", "w2"))

(* the ledger whose creator list is full: ten different identities *)
CreatorNames ==
    <<"w1", "w2", "w3", "c4", "c5", "c6", "c7", "c8", "c9", "c10">>
RECURSIVE WithCreators(_, _)
WithCreators(s, n) ==
    IF n = 0 THEN s
    ELSE After(WithCreators(s, n - 1),
               LAMBDA t : AddCardCreatorTx(t, Admin, CreatorNames[n]))
FullCreators == WithCreators(Bootstrap, Len(CreatorNames))

Ledgers ==
    { [st |-> Genesis, listing_state |-> [m \in Mints |-> "Unlisted"]],
      [st |-> FullCreators, listing_state |-> [m \in Mints |-> "Unlisted"]],
      [st |-> HalfFunded, listing_state |-> [m \in Mints |-> "Unlisted"]],
      [st |-> Seasoned, listing_state |-> [m \in Mints |-> "Unlisted"]],
      [st |-> Beaten, listing_state |-> [m \in Mints |-> "Unlisted"]],
      [st |-> MarketListed,
       listing_state |-> [m \in Mints |->
                            IF m = "m1" THEN "Active" ELSE "Unlisted"]],
      [st |-> MarketSold,
       listing_state |-> [m \in Mints |->
                            IF m = "m1" THEN "Active" ELSE "Sold"]] }

StepInit ==
    /\ \E l \in Ledgers :
          /\ InitAccounts(l.st)
          /\ listing_state = l.listing_state
    /\ sales = 0
    /\ last = [op |-> "none", caller |-> "none", mint |-> "none",
               card_type_id |-> 0, err |-> "Ok"]

AddCardCreator(authority, new_creator) ==
    /\ Submit("add_card_creator", authority, "none", 0,
              AddCardCreatorTx(Store, authority, new_creator))
    /\ UNCHANGED <<listing_state, sales>>

CreateCardTemplate(creator, card_type_id, t) ==
    /\ Submit("create_card_template", creator, "none", card_type_id,
              CreateCardTemplateTx(Store, creator, card_type_id, t))
    /\ UNCHANGED <<listing_state, sales>>

RollGacha(player, random_value) ==
    LET res == RollGachaTx(Store, player, random_value)
    IN  /\ last' = [op |-> "roll_gacha", caller |-> player,
                    random_value |-> random_value, rarity |-> res.rarity,
                    card_type_id |-> res.card_type_id, err |-> res.err]
        /\ Install(Commit(Store, res))
        /\ UNCHANGED <<listing_state, sales>>

SaveDeck(player, deck_index, deck_name, card_mints) ==
    /\ last' = [op |-> "save_deck", caller |-> player,
                deck_index |-> deck_index,
                err |-> SaveDeckTx(Store, player, deck_index, deck_name,
                                   card_mints).err]
    /\ Install(Commit(Store, SaveDeckTx(Store, player, deck_index, deck_name,
                                        card_mints)))
    /\ UNCHANGED <<listing_state, sales>>

DeleteDeck(player, deck_index) ==
    /\ last' = [op |-> "delete_deck", caller |-> player,
                deck_index |-> deck_index,
                err |-> DeleteDeckTx(Store, player, deck_index).err]
    /\ Install(Commit(Store, DeleteDeckTx(Store, player, deck_index)))
    /\ UNCHANGED <<listing_state, sales>>

BadTemplateArgs == [TemplateArgs EXCEPT !.min_attack = 4]
DeckIndexes == {0, MAX_DECKS}
DeckCards == {<<>>, <<"m1", "m2">>}
RollValues == {[hi |-> 0, lo |-> 0], [hi |-> 0, lo |-> 80], [hi |-> 0, lo |-> 99]}

(* one transaction, on a ledger on which none has run yet *)
Unused == last.op = "none"

StepNext ==
    \/ \E p \in Wallets, id \in TemplateIds, m \in Mints, v \in RandomValues :
          Unused /\ GachaDraw(p, id, m, v)
    \/ \E p \in Wallets, m \in Mints, ta \in DOMAIN token_account,
          price \in Prices : Unused /\ ListCard(p, m, ta, price)
    \/ \E p \in Wallets, m \in Mints, ta \in DOMAIN token_account :
          Unused /\ CancelListing(p, m, ta)
    \/ \E p \in Wallets, m \in Mints, seller \in Wallets :
          Unused /\ BuyCard(p, m, seller)
    \/ \E a \in {Admin, "w1"}, d \in Discriminants, ids \in PoolUpdates :
          Unused /\ UpdateRarityPool(a, d, ids)
    \/ \E p \in Wallets, randoms \in PackRandoms :
          Unused /\ PurchasePack(p, randoms)
    \/ \E a \in {Admin, "w1"}, r \in Rates : Unused /\ Initialize(a, r)
    \/ \E p \in Players, u \in Usernames : Unused /\ RegisterPlayer(p, u)
    \/ \E p \in Players : Unused /\ ClaimStarterTickets(p)
    \/ \E a \in {Admin, "w1"}, w \in Players, n \in GrantAmounts :
          Unused /\ AddGachaTickets(a, w, n)
    \/ \E p \in Players, n \in SolAmounts : Unused /\ BuyBugTokens(p, n)
    \/ \E p \in Players, n \in TicketCounts : Unused /\ BuyGachaTickets(p, n)
    \/ \E a \in {Admin, "w1"}, w \in Wallets, l \in Wallets,
          dup_check \in BOOLEAN :
          Unused /\ RecordMatchResult(a, w, l, dup_check)
    \/ \E a \in {Admin, "w1"}, c \in {"w1", "w2"} :
          Unused /\ AddCardCreator(a, c)
    \/ \E c \in {Admin, "w1", "w2"}, id \in TemplateIds,
          t \in {TemplateArgs, BadTemplateArgs} :
          Unused /\ CreateCardTemplate(c, id, t)
    \/ \E p \in {"w1", "w2"}, v \in RollValues : Unused /\ RollGacha(p, v)
    \/ \E p \in {"w1", "w2"}, i \in DeckIndexes, cards \in DeckCards :
          Unused /\ SaveDeck(p, i, Username, cards)
    \/ \E p \in {"w1", "w2"}, i \in DeckIndexes :
          Unused /\ DeleteDeck(p, i)

StepSpec == StepInit /\ [][StepNext]_vars

----------------------------------------------------------------------------
----------------------------------------------------------------------------
(* the callers tried, and the results of the gated instructions for one *)
Callers == Wallets \cup {Admin}
GatedResults(caller) ==
    {RecordMatchResultTx(Store, caller, w, l, dup_check) :
        w \in DOMAIN player_profile, l \in DOMAIN player_profile,
        dup_check \in BOOLEAN}
    \cup {UpdateRarityPoolTx(Store, caller, d, ids) :
             d \in Discriminants, ids \in PoolUpdates}
    \cup {AddCardCreatorTx(Store, caller, c) : c \in Wallets}
    \cup {AddGachaTicketsTx(Store, caller, w, MaxGranted) :
             w \in DOMAIN player_profile}
TemplateResults(caller) ==
    {CreateCardTemplateTx(Store, caller, id, TemplateArgs) : id \in TemplateIds}

(* C24: recording a match, updating a rarity pool, adding a card creator   *)
(* and granting tickets succeed only for the authority of the              *)
(* configuration, creating a card template only for the authority or a     *)
(* listed creator; for any other caller they fail and change no account,   *)
(* with the failed authority constraint or Unauthorized as the error when  *)
(* the accounts the call names are there.                                  *)
C24_AuthorityGating ==
    \A caller \in Callers :
        LET cfg == game_config[ConfigKey]
            creator == \/ caller = cfg.authority
                       \/ \E i \in DOMAIN cfg.card_creators :
                             cfg.card_creators[i] = caller
        IN  /\ \A res \in GatedResults(caller) \cup TemplateResults(caller) :
                  ~Has(game_config, ConfigKey) => res.err # "Ok"
            /\ Has(game_config, ConfigKey) =>
                  /\ \A res \in GatedResults(caller) :
                        /\ res.err = "Ok" => caller = cfg.authority
                        /\ caller # cfg.authority =>
                              /\ res.err # "Ok"
                              /\ Commit(Store, res) = Store
                  /\ \A res \in TemplateResults(caller) :
                        /\ res.err = "Ok" => creator
                        /\ ~creator =>
                              /\ res.err # "Ok"
                              /\ Commit(Store, res) = Store
                  /\ caller # cfg.authority =>
                        /\ \A w \in DOMAIN player_profile :
                           \A l \in DOMAIN player_profile \ {w} :
                              RecordMatchResultTx(Store, caller, w, l, TRUE).err
                                 = "ConstraintHasOne"
                        /\ \A d \in Discriminants, ids \in PoolUpdates :
                              UpdateRarityPoolTx(Store, caller, d, ids).err
                                 = "ConstraintHasOne"
                        /\ \A c \in Wallets :
                              AddCardCreatorTx(Store, caller, c).err
                                 = "ConstraintHasOne"
                        /\ \A w \in DOMAIN player_profile :
                              AddGachaTicketsTx(Store, caller, w, MaxGranted).err
                                 = "ConstraintHasOne"
                  /\ ~creator =>
                        \A id \in TemplateIds \ DOMAIN card_template :
                            CreateCardTemplateTx(Store, caller, id,
                                                 TemplateArgs).err
                               = "Unauthorized"

(* a match submitted by a wallet that is a card creator, not the authority *)
C24_Witness ==
    /\ last.op = "record_match_result" /\ last.err = "ConstraintHasOne"
    /\ last.caller # game_config[ConfigKey].authority
    /\ \E i \in DOMAIN game_config[ConfigKey].card_creators :
          game_config[ConfigKey].card_creators[i] = last.caller
    /\ last.winner # last.loser

(* a template created by a listed creator *)
C24_WitnessCreator ==
    /\ last.op = "create_card_template" /\ last.err = "Ok"
    /\ last.caller # game_config[ConfigKey].authority
    /\ Has(card_template, last.card_type_id)

(* a template refused to a wallet that is not a creator *)
C24_WitnessRefused ==
    /\ last.op = "create_card_template" /\ last.err = "Unauthorized"
    /\ ~Has(card_template, last.card_type_id)

----------------------------------------------------------------------------
(* Rarity pools, from the state after setup.                               *)
PoolLists == {<<>>, <<1>>, <<2, 1>>, <<2, 2>>, <<1, 2, 1>>}

PoolNext ==
    \E a \in {Admin, "w1"}, d \in Discriminants, ids \in PoolLists :
        UpdateRarityPool(a, d, ids)

PoolSpec == Init /\ [][PoolNext]_vars

IsPrefix(s, t) == Len(s) <= Len(t) /\ \A i \in 1 .. Len(s) : s[i] = t[i]
NoDuplicates(s) == \A i \in 1 .. Len(s), j \in 1 .. Len(s) : s[i] = s[j] => i = j
IdsOf(pools, d) == pools[d].card_type_ids

(* C25: a pool never holds an id twice; a successful update leaves in the  *)
(* pool every id of its list, a list that repeats an id included; no       *)
(* transaction removes a pool or an id of a pool or moves an id already    *)
(* there: the pool before is a prefix of the pool after.                   *)
C25_PoolAppendOnly ==
    [][ /\ \A d \in DOMAIN rarity_pool : NoDuplicates(IdsOf(rarity_pool, d))
        /\ \A d \in DOMAIN rarity_pool :
              /\ d \in DOMAIN rarity_pool'
              /\ IsPrefix(IdsOf(rarity_pool, d), IdsOf(rarity_pool', d))
              /\ NoDuplicates(IdsOf(rarity_pool', d))
        /\ \A d \in Discriminants, ids \in PoolLists :
              LET res == UpdateRarityPoolTx(Store, Admin, d, ids)
                  after == Commit(Store, res).rarity_pool
              IN  (res.err = "Ok") =>
                     /\ \A i \in 1 .. Len(ids) :
                           \E j \in 1 .. Len(IdsOf(after, d)) :
                              IdsOf(after, d)[j] = ids[i]
                     /\ \A j \in 1 .. Len(IdsOf(after, d)) :
                           \/ /\ Has(rarity_pool, d)
                              /\ j <= Len(IdsOf(rarity_pool, d))
                           \/ \E i \in 1 .. Len(ids) :
                                 IdsOf(after, d)[j] = ids[i]
                     /\ NoDuplicates(IdsOf(after, d))
                     /\ \A e \in DOMAIN rarity_pool \ {d} :
                           after[e] = rarity_pool[e]
      ]_vars

(* a pool filled by <<2, 1>> and then updated with a list that repeats *)
C25_Witness ==
    /\ last.op = "update_rarity_pool" /\ last.err = "Ok"
    /\ Has(rarity_pool, 0) /\ IdsOf(rarity_pool, 0) = <<2, 1>>
    /\ Has(rarity_pool, 1) /\ IdsOf(rarity_pool, 1) = <<1, 2>>

-----------------------------------------------------------------------------
(* Balances and counters in their widths.                                  *)

Fits64(x) == x \in 0 .. U64Max
Fits32(x) == x \in 0 .. U32Max

(* every stored balance and counter is a value of its integer type *)
BalancesFit ==
    \A p \in DOMAIN player_profile :
        /\ Fits64(player_profile[p].bug_balance)
        /\ Fits64(player_profile[p].gacha_tickets)
        /\ Fits32(player_profile[p].trophies)
        /\ Fits32(player_profile[p].total_wins)
        /\ Fits32(player_profile[p].total_losses)
        /\ Fits32(player_profile[p].win_streak)

(* the transaction failed and stored nothing *)
Refused(res) == res.err # "Ok" /\ Commit(Store, res) = Store

(* an update of `field` of profile p by `delta` gives exactly the sum, or   *)
(* the transaction is refused when the sum is outside 0 .. max              *)
ExactOrRefused(res, p, field, delta, max) ==
    LET exact == player_profile[p][field] + delta
    IN  IF exact \in 0 .. max
        THEN res.err = "Ok" => res.st.player_profile[p][field] = exact
        ELSE Refused(res)

TicketUpdatesExact ==
    Has(game_config, ConfigKey) =>
    \A p \in DOMAIN player_profile :
        /\ \A n \in GrantAmounts :
              ExactOrRefused(AddGachaTicketsTx(Store, Admin, p, n),
                             p, "gacha_tickets", n, U64Max)
        /\ \A n \in TicketCounts :
              LET res == BuyGachaTicketsTx(Store, p, n)
                  price == game_config[ConfigKey].ticket_price
              IN  IF price # 0 /\ n > U64Max \div price THEN Refused(res)
                  ELSE /\ ExactOrRefused(res, p, "gacha_tickets", n, U64Max)
                       /\ ExactOrRefused(res, p, "bug_balance",
                                         0 - price * n, U64Max)
        /\ \A id \in TemplateIds, m \in Mints, v \in RandomValues :
              \A res \in GachaDrawTx(Store, p, id, m, v) :
                  ExactOrRefused(res, p, "gacha_tickets", 0 - 1, U64Max)

CurrencyUpdatesExact ==
    Has(game_config, ConfigKey) =>
    \A p \in DOMAIN player_profile :
        /\ \A sol \in SolAmounts :
              ExactOrRefused(BuyBugTokensTx(Store, p, sol), p, "bug_balance",
                  MulDivU64(sol, game_config[ConfigKey].sol_to_bug_rate,
                            LAMPORTS_PER_SOL), U64Max)
        /\ \A randoms \in PackRandoms :
              ExactOrRefused(PurchasePackTx(Store, p, randoms), p,
                  "bug_balance", 0 - game_config[ConfigKey].normal_pack_price,
                  U64Max)
        /\ \A m \in DOMAIN listing :
              LET res == BuyCardTx(Store, p, m, listing[m].seller)
                  P == listing[m].price
              IN  /\ ExactOrRefused(res, p, "bug_balance", 0 - P, U64Max)
                  /\ res.err = "Ok" =>
                        ExactOrRefused(res, listing[m].seller, "bug_balance",
                                       P - FeeOf(P), U64Max)
                  /\ P <= U64Max \div FEE_NUMERATOR
                     /\ ~Fits64(player_profile[listing[m].seller].bug_balance
                                + P - FeeOf(P))
                     => Refused(res)

(* the loser's copy is the one stored when the two profiles are the same *)
MatchUpdatesExact ==
    Has(game_config, ConfigKey) =>
    \A w \in DOMAIN player_profile : \A l \in DOMAIN player_profile :
        \A dup_check \in BOOLEAN :
        LET res == RecordMatchResultTx(Store, Admin, w, l, dup_check)
            streak == player_profile[w].win_streak + 1
        IN  /\ w # l =>
                 /\ ExactOrRefused(res, w, "win_streak", 1, U32Max)
                 /\ ExactOrRefused(res, w, "trophies",
                                   BASE_TROPHY_GAIN + streak, U32Max)
                 /\ ExactOrRefused(res, w, "total_wins", 1, U32Max)
                 /\ ExactOrRefused(res, w, "bug_balance", WIN_REWARD, U64Max)
            /\ ~Fits32(streak)
               \/ ~Fits32(BASE_TROPHY_GAIN + streak)
               \/ ~Fits32(player_profile[w].trophies + BASE_TROPHY_GAIN + streak)
               \/ ~Fits32(player_profile[w].total_wins + 1)
               \/ ~Fits64(player_profile[w].bug_balance + WIN_REWARD)
               => Refused(res)
            /\ ExactOrRefused(res, l, "total_losses", 1, U32Max)
            /\ res.err = "Ok" =>
                 /\ res.st.player_profile[l].win_streak = 0
                 /\ res.st.player_profile[l].trophies =
                        IF player_profile[l].trophies < TROPHY_LOSS THEN 0
                        ELSE player_profile[l].trophies - TROPHY_LOSS

-----------------------------------------------------------------------------
(* The platform fee.                                                       *)

(* the sum, over the profiles of S, of the change of the BUG balance in    *)
(* this step                                                               *)
RECURSIVE BalanceChange(_)
BalanceChange(S) ==
    IF S = {} THEN 0
    ELSE LET p == CHOOSE x \in S : TRUE
         IN  (player_profile'[p].bug_balance - player_profile[p].bug_balance)
             + BalanceChange(S \ {p})

(* C27: the fee of a sale is burned: a successful purchase of a listing at *)
(* price P changes no BUG balance other than the buyer's and the seller's, *)
(* the sum of all BUG balances decreases by exactly floor(P*25/1000), and  *)
(* no account (authority, treasury, any other profile) is credited the fee.*)
C27_FeeBurned ==
    [][(last'.op = "buy_card" /\ last'.err = "Ok") =>
        LET b == last'.caller
            S == listing[last'.mint].seller
            P == listing[last'.mint].price
        IN  /\ DOMAIN player_profile' = DOMAIN player_profile
            /\ \A p \in DOMAIN player_profile \ {b, S} :
                   player_profile'[p] = player_profile[p]
            /\ \A p \in {b, S} :
                   player_profile'[p] =
                       [player_profile[p] EXCEPT
                           !.bug_balance = player_profile'[p].bug_balance]
            /\ BalanceChange(DOMAIN player_profile) = 0 - FeeOf(P)
            /\ \A p \in DOMAIN player_profile \ {S} :
                   player_profile'[p].bug_balance
                       <= player_profile[p].bug_balance
            /\ game_config' = game_config]_vars

(* w1 bought at 40 the card w2 had listed: w1 paid 40, w2 received 39, w3  *)
(* holds what it held, and 1 BUG is in no balance                          *)
C27_Witness ==
    /\ last.op = "buy_card" /\ last.err = "Ok" /\ last.caller = "w1"
    /\ sales = 1
    /\ player_profile["w1"].bug_balance
           = Bootstrap.player_profile["w1"].bug_balance - ListPrice
    /\ player_profile["w2"].bug_balance
           = Bootstrap.player_profile["w2"].bug_balance
             + ListPrice - FeeOf(ListPrice)
    /\ FeeOf(ListPrice) > 0
    /\ player_profile["w3"] = Bootstrap.player_profile["w3"]

(* C28: for every 64-bit listing price P the fee used by buy_card is       *)
(* exactly floor(P*25/1000), never a wrapped product, and the seller's     *)
(* amount P - fee is between 0 and P; when P*25 does not fit in 64 bits    *)
(* and the buyer can afford P, the purchase fails with the error code      *)
(* NumericalOverflow and leaves listing, card and balances unchanged.      *)
C28_FeeExact ==
    \A m \in DOMAIN listing :
        \A b \in DOMAIN player_profile \ {listing[m].seller} :
            LET S == listing[m].seller
                P == listing[m].price
                res == BuyCardTx(Store, b, m, S)
            IN  /\ res.err = "Ok" =>
                     /\ P * FEE_NUMERATOR <= U64Max
                     /\ res.st.player_profile[S].bug_balance
                            = player_profile[S].bug_balance + (P - FeeOf(P))
                     /\ P - FeeOf(P) \in 0 .. P
                /\ ( /\ P > U64Max \div FEE_NUMERATOR
                     /\ listing[m].is_active
                     /\ player_profile[b].bug_balance >= P )
                   => /\ res.err = "NumericalOverflow"
                      /\ Commit(Store, res) = Store

(* the buyer could afford a price whose product with 25 passes the largest *)
(* 64-bit value: the purchase was aborted by the panic of unwrap(), the    *)
(* listing is still active and the balances are those before               *)
C28_Witness ==
    /\ last.op = "buy_card" /\ last.err = "Panic"
    /\ Has(listing, last.mint) /\ listing[last.mint].is_active
    /\ listing[last.mint].price = HugePrice
    /\ HugePrice > U64Max \div FEE_NUMERATOR
    /\ player_profile[last.caller].bug_balance >= HugePrice
    /\ card_instance[last.mint].owner = listing[last.mint].seller

-----------------------------------------------------------------------------
(* Card selection: rolls and pack purchases on ledgers whose three pools   *)
(* hold zero to three card types.                                          *)

PoolLedger(common, rare, legendary) ==
    After(After(After(Bootstrap,
                      LAMBDA s : UpdateRarityPoolTx(s, Admin, 0, common)),
                LAMBDA s : UpdateRarityPoolTx(s, Admin, 1, rare)),
          LAMBDA s : UpdateRarityPoolTx(s, Admin, 2, legendary))

SelectPools == {<<>>, <<1>>, <<2, 1>>, <<1, 3, 2>>}
SelectValues == [hi : {0, 7}, lo : {0, 1, 25, 80, 99}]

SelectInit ==
    /\ \E c \in SelectPools, r \in SelectPools, l \in SelectPools :
          InitAccounts(PoolLedger(c, r, l))
    /\ sales = 0
    /\ last = [op |-> "none", caller |-> "none", mint |-> "none",
               card_type_id |-> 0, err |-> "Ok"]
    /\ listing_state = [m \in Mints |-> "Unlisted"]

SelectNext ==
    \/ \E p \in {"w1", "w3"}, v \in SelectValues : RollGacha(p, v)
    \/ \E p \in {"w1", "w2"}, randoms \in PackRandoms : PurchasePack(p, randoms)

SelectSpec == SelectInit /\ [][SelectNext]_vars

(* the pool of the tier the value rolls *)
RolledPool(v) == rarity_pool[to_discriminant(roll_rarity(v))].card_type_ids
Members(ids) == {ids[i] : i \in 1 .. Len(ids)}

(* C29: for a pool that is not empty and every random value v the card     *)
(* type selected is the pool entry at index v mod pool.length, a member of *)
(* the pool of the rolled tier; for an empty pool the selection fails with *)
(* EmptyRarityPool; a roll, and a pack purchase, one of whose rolled tiers *)
(* has an empty pool fails as a whole and changes nothing.                 *)
C29_CardSelection ==
    /\ \A d \in DOMAIN rarity_pool, v \in SelectValues :
          LET ids == rarity_pool[d].card_type_ids
              sel == select_random_card(rarity_pool[d], v)
          IN  IF ids = <<>> THEN sel.err = "EmptyRarityPool"
              ELSE /\ sel.err = "Ok"
                   /\ sel.id = ids[ValueMod(v, Len(ids)) + 1]
                   /\ sel.id \in Members(ids)
    /\ \A p \in {"w1", "w3"}, v \in SelectValues :
          LET res == RollGachaTx(Store, p, v)
          IN  IF RolledPool(v) = <<>>
              THEN res.err = "EmptyRarityPool" /\ Commit(Store, res) = Store
              ELSE /\ res.err = "Ok"
                   /\ res.card_type_id
                          = RolledPool(v)[ValueMod(v, Len(RolledPool(v))) + 1]
                   /\ res.card_type_id \in Members(RolledPool(v))
    /\ \A p \in DOMAIN player_profile, randoms \in PackRandoms :
          LET res == PurchasePackTx(Store, p, randoms)
          IN  (\E i \in 1 .. game_config[ConfigKey].starter_pack_card_count :
                   RolledPool(randoms[i]) = <<>>)
              => res.err # "Ok" /\ Commit(Store, res) = Store
    /\ last.op = "roll_gacha" =>
          IF RolledPool(last.random_value) = <<>>
          THEN last.err = "EmptyRarityPool"
          ELSE /\ last.err = "Ok"
               /\ last.card_type_id \in Members(RolledPool(last.random_value))

(* a roll of the value 7 * 2^32 + 80 (roll 52: Common; index 0 of three)   *)
(* selected the first entry of the Common pool; the Rare pool is empty     *)
C29_Witness ==
    /\ last.op = "roll_gacha" /\ last.err = "Ok"
    /\ last.random_value = [hi |-> 7, lo |-> 80]
    /\ last.rarity = "Common"
    /\ rarity_pool[0].card_type_ids = <<1, 3, 2>>
    /\ last.card_type_id = 1
    /\ rarity_pool[1].card_type_ids = <<>>

(* a roll of a Rare value failed on the empty Rare pool *)
C29_WitnessEmpty ==
    /\ last.op = "roll_gacha" /\ last.err = "EmptyRarityPool"
    /\ last.rarity = "Rare"
    /\ rarity_pool[1].card_type_ids = <<>>
    /\ rarity_pool[0].card_type_ids # <<>>

-----------------------------------------------------------------------------
(* The life of a card: draws, listings, purchases, decks and matches, in   *)
(* any order, on the ledger where w1 has drawn m1 and m2 is not yet drawn. *)

CardInit ==
    /\ InitAccounts(MarketDrawnRich)
    /\ sales = 0
    /\ last = [op |-> "none", caller |-> "none", mint |-> "none",
               card_type_id |-> 0, err |-> "Ok"]
    /\ listing_state = [m \in Mints |->
                          IF Has(MarketDrawnRich.listing, m) THEN "Active"
                          ELSE "Unlisted"]

CardNext ==
    \/ \E p \in Players, m \in Mints, v \in RandomValues :
          GachaDraw(p, 1, m, v)
    \/ \E p \in Players, m \in Mints, price \in {0, ListPrice} :
          ListCard(p, m, <<p, m>>, price)
    \/ \E p \in Players, m \in Mints : CancelListing(p, m, <<p, m>>)
    \/ \E p \in Players, m \in Mints, seller \in Players :
          BuyCard(p, m, seller)
    \/ \E cards \in DeckCards : SaveDeck("w1", 0, Username, cards)
    \/ DeleteDeck("w1", 0)
    \/ \E w \in Players, l \in Players :
          RecordMatchResult(Admin, w, l, FALSE)

CardSpec == CardInit /\ [][CardNext]_vars

(* C30: the card type, attack and health of a CardInstance never change    *)
(* after the draw that created it, under any sequence of operations; its   *)
(* owner is changed only by a successful buy_card, to the buyer, and is    *)
(* left as it is by list_card, cancel_listing, the deck operations,        *)
(* matches and every failed operation.                                     *)
C30_CardInstanceFrame ==
    [][/\ \A m \in DOMAIN card_instance :
             /\ Has(card_instance', m)
             /\ card_instance'[m].card_type_id = card_instance[m].card_type_id
             /\ card_instance'[m].attack = card_instance[m].attack
             /\ card_instance'[m].health = card_instance[m].health
             /\ card_instance'[m].owner # card_instance[m].owner =>
                   /\ last'.op = "buy_card" /\ last'.err = "Ok"
                   /\ last'.mint = m
                   /\ card_instance'[m].owner = last'.caller
       /\ (last'.op = "buy_card" /\ last'.err = "Ok") =>
             card_instance'[last'.mint].owner = last'.caller
       /\ last'.op \in {"list_card", "cancel_listing", "save_deck",
                        "delete_deck", "record_match_result"} =>
             card_instance' = card_instance
       /\ last'.err # "Ok" => card_instance' = card_instance]_vars

(* the card m2, drawn by w2 and held in a deck of w1 after w1 bought it,   *)
(* keeps the stats of its template while its owner is now w1; w1 has also  *)
(* lost a match, and has listed m1 and withdrawn it                        *)
C30_Witness ==
    /\ Has(card_instance, "m2")
    /\ card_instance["m2"].owner = "w1"
    /\ card_instance["m2"].card_type_id = 1
    /\ listing_state["m2"] = "Sold"
    /\ Has(player_deck, <<"w1", 0>>)
    /\ player_profile["w1"].total_losses > 0
    /\ last.op = "cancel_listing" /\ last.err = "Ok" /\ last.mint = "m1"

-----------------------------------------------------------------------------
(* Pool capacity: updates with runs of consecutive card types that fill a  *)
(* pool to its 100 entries and past them.                                  *)

Run(first, n) == [i \in 1 .. n |-> first + i - 1]
CapLists == {<<>>, Run(1, 60), Run(61, 40), Run(61, 41), Run(101, 1)}

CapNext ==
    \E a \in {Admin, "w1"}, d \in {0, 1}, ids \in CapLists :
        UpdateRarityPool(a, d, ids)

CapSpec == Init /\ [][CapNext]_vars

(* C31: after any sequence of update_rarity_pool calls every pool holds at *)
(* most 100 card-type ids; a call that would take the pool beyond 100      *)
(* entries fails and leaves the pool unchanged.                            *)
C31_PoolCapacity ==
    /\ \A d \in DOMAIN rarity_pool :
          Len(rarity_pool[d].card_type_ids) <= 100
    /\ Has(game_config, ConfigKey) =>
       \A d \in {0, 1}, ids \in CapLists :
          LET res == UpdateRarityPoolTx(Store, Admin, d, ids)
              held == IF Has(rarity_pool, d)
                      THEN Members(rarity_pool[d].card_type_ids) ELSE {}
          IN  IF Cardinality(held \cup Members(ids)) > 100
              THEN /\ res.err # "Ok"
                   /\ Commit(Store, res) = Store
              ELSE /\ res.err = "Ok"
                   /\ Members(res.st.rarity_pool[d].card_type_ids)
                          = held \cup Members(ids)

(* a full pool refused the one card type it does not hold *)
C31_Witness ==
    /\ last.op = "update_rarity_pool" /\ last.err = "AccountDidNotSerialize"
    /\ Has(rarity_pool, 0)
    /\ Len(rarity_pool[0].card_type_ids) = 100
    /\ ~(101 \in Members(rarity_pool[0].card_type_ids))
    /\ Has(rarity_pool, 1)
    /\ Len(rarity_pool[1].card_type_ids) = 40

-----------------------------------------------------------------------------
(* The configuration.                                                      *)

CreatorsOf(cfg) == cfg[ConfigKey].card_creators

(* C32: the configuration is created exactly once (a second initialize     *)
(* fails), its authority never changes after creation under any operation, *)
(* and the creator list never holds more than 10 entries: add_card_creator *)
(* on a list of 10 fails with CardCreatorsListFull and leaves the list     *)
(* unchanged.                                                              *)
C32_ConfigInvariants ==
    [][/\ Has(game_config, ConfigKey) =>
             /\ Has(game_config', ConfigKey)
             /\ game_config'[ConfigKey].authority
                    = game_config[ConfigKey].authority
             /\ Len(CreatorsOf(game_config)) <= 10
       /\ Has(game_config', ConfigKey) => Len(CreatorsOf(game_config')) <= 10
       /\ (last'.op = "initialize" /\ Has(game_config, ConfigKey)) =>
             /\ last'.err # "Ok"
             /\ UNCHANGED accounts
       /\ (last'.op = "initialize" /\ last'.err = "Ok") =>
             /\ ~Has(game_config, ConfigKey)
             /\ game_config'[ConfigKey].authority = last'.caller
       /\ ( /\ last'.op = "add_card_creator"
            /\ Has(game_config, ConfigKey)
            /\ Len(CreatorsOf(game_config)) = 10 ) =>
             /\ last'.err # "Ok"
             /\ last'.caller = game_config[ConfigKey].authority
                   => last'.err = "CardCreatorsListFull"
             /\ UNCHANGED accounts]_vars

(* the authority asked for an eleventh creator and was refused *)
C32_Witness ==
    /\ last.op = "add_card_creator" /\ last.err = "CardCreatorsListFull"
    /\ last.caller = game_config[ConfigKey].authority
    /\ CreatorsOf(game_config) = CreatorNames
    /\ Len(CreatorNames) = 10

(* another wallet's initialize on the existing configuration was refused   *)
C32_WitnessInitialize ==
    /\ last.op = "initialize" /\ last.err = "AccountInUse"
    /\ last.caller = "w1"
    /\ game_config[ConfigKey].authority = Admin

-----------------------------------------------------------------------------
(* The creator list under sequences of add_card_creator.                   *)

CreatorNext ==
    \E a \in {Admin, "w1"}, c \in {"w1", "w2"} : AddCardCreator(a, c)

CreatorSpec == Init /\ [][CreatorNext]_vars

(* C33: the authorized-creator collection has set semantics: after any     *)
(* sequence of add_card_creator calls no identity appears in it more than  *)
(* once, so adding an identity that is already a creator does not consume  *)
(* one of the 10 slots.                                                    *)
C33_CreatorSet ==
    LET creators == CreatorsOf(game_config)
    IN  /\ \A i \in 1 .. Len(creators), j \in 1 .. Len(creators) :
              creators[i] = creators[j] => i = j
        /\ \A c \in Members(creators) :
              LET res == AddCardCreatorTx(Store, game_config[ConfigKey].authority, c)
              IN  Len(CreatorsOf(Commit(Store, res).game_config))
                      = Len(creators)

(* one identity fills the ten slots, and a second identity was refused     *)
C33_Witness ==
    /\ last.op = "add_card_creator" /\ last.err = "CardCreatorsListFull"
    /\ CreatorsOf(game_config) = [i \in 1 .. 10 |-> "w1"]
    /\ Members(CreatorsOf(game_config)) = {"w1"}
    /\ AddCardCreatorTx(Store, Admin, "w2").err = "CardCreatorsListFull"

-----------------------------------------------------------------------------
(* The template registry: creations with valid and invalid arguments, and  *)
(* the instructions that read templates, from a ledger without templates   *)
(* and from the ledger of the marketplace.                                 *)

CreatorOnly == After(Initialized, LAMBDA s : AddCardCreatorTx(s, Admin, "w1"))

OtherTemplateArgs ==
    [TemplateArgs EXCEPT !.rarity = "Legendary", !.min_attack = 0,
                         !.max_attack = U16Max, !.min_health = 7,
                         !.max_health = 7, !.name = <<"B", "e", "e">>]
TemplateTries ==
    {TemplateArgs, OtherTemplateArgs, BadTemplateArgs,
     [TemplateArgs EXCEPT !.min_health = 3],
     [TemplateArgs EXCEPT !.name = <<>>],
     [TemplateArgs EXCEPT !.name = <<" ">>],
     [TemplateArgs EXCEPT !.description = <<>>],
     [TemplateArgs EXCEPT !.name = LongName(MAX_NAME_LEN + 1)],
     [TemplateArgs EXCEPT !.description = LongName(MAX_DESCRIPTION_LEN + 1)],
     [TemplateArgs EXCEPT !.image_uri = LongName(MAX_IMAGE_URI_LEN + 1)]}

TemplateInit ==
    /\ \E st \in {CreatorOnly, MarketCreator} : InitAccounts(st)
    /\ sales = 0
    /\ last = [op |-> "none", caller |-> "none", mint |-> "none",
               card_type_id |-> 0, err |-> "Ok"]
    /\ listing_state = [m \in Mints |-> "Unlisted"]

TemplateNext ==
    \/ \E c \in {Admin, "w1", "w2"}, id \in TemplateIds, t \in TemplateTries :
          CreateCardTemplate(c, id, t)
    \/ \E p \in Players, id \in TemplateIds, v \in RandomValues :
          GachaDraw(p, id, "m1", v)
    \/ \E ids \in PoolUpdates : UpdateRarityPool(Admin, 0, ids)
    \/ AddCardCreator(Admin, "w2")

TemplateSpec == TemplateInit /\ [][TemplateNext]_vars

WellFormedTemplate(t) ==
    /\ t.min_attack <= t.max_attack
    /\ t.min_health <= t.max_health
    /\ t.name # <<>>
    /\ t.description # <<>>

(* C34: every stored CardTemplate has min_attack <= max_attack,            *)
(* min_health <= max_health and a non-empty name and description for its  *)
(* whole life; creating a template for a card-type id that already has one *)
(* fails and leaves the existing template unchanged; no operation modifies *)
(* a template after its creation.                                          *)
C34_TemplateIntegrity ==
    [][/\ \A id \in DOMAIN card_template :
             /\ WellFormedTemplate(card_template[id])
             /\ Has(card_template', id)
             /\ card_template'[id] = card_template[id]
       /\ \A id \in DOMAIN card_template' :
             WellFormedTemplate(card_template'[id])
       /\ ( /\ last'.op = "create_card_template"
            /\ Has(card_template, last'.card_type_id) ) =>
             /\ last'.err # "Ok"
             /\ UNCHANGED accounts]_vars

(* the creator w1 made template 2; the authority's later creation for the  *)
(* same id was refused and the template is the one w1 stored               *)
C34_Witness ==
    /\ last.op = "create_card_template" /\ last.err = "AccountInUse"
    /\ last.caller = Admin /\ last.card_type_id = 2
    /\ Has(card_template, 2)
    /\ card_template[2].rarity = "Legendary"
    /\ card_template[2].max_attack = U16Max
    /\ Has(card_template, 1) /\ card_template[1].rarity = "Common"
    /\ Has(card_instance, "m1") /\ card_instance["m1"].card_type_id = 2

-----------------------------------------------------------------------------
(* Rolls and draws: the Common pool holds the Common template 1, the       *)
(* Legendary pool the Legendary template 2, the Rare pool is empty.        *)

RollLegendaryTemplate ==
    After(MarketPools,
          LAMBDA s : CreateCardTemplateTx(s, Admin, 2, OtherTemplateArgs))
RollLedger ==
    After(RollLegendaryTemplate,
          LAMBDA s : UpdateRarityPoolTx(s, Admin, 2, <<2>>))

RollInit ==
    /\ InitAccounts(RollLedger)
    /\ sales = 0
    /\ last = [op |-> "none", caller |-> "none", mint |-> "none",
               card_type_id |-> 0, err |-> "Ok"]
    /\ listing_state = [m \in Mints |-> "Unlisted"]

RollNext ==
    \/ \E p \in Wallets, v \in RollValues : RollGacha(p, v)
    \/ \E p \in Wallets, id \in TemplateIds, m \in Mints, v \in RandomValues :
          GachaDraw(p, id, m, v)

RollSpec == RollInit /\ [][RollNext]_vars

(* C35: roll and draw are not bound: gacha_draw succeeds with any existing *)
(* card template the caller supplies, whatever card type and rarity a roll *)
(* by the same caller in the same state returned, so that a player can     *)
(* hold a Legendary-template card drawn with one ticket although the roll  *)
(* selected a Common card; the roll itself changes no record.              *)
C35_RollDrawUnbound ==
    \A p \in Wallets, v \in RollValues :
        LET roll == RollGachaTx(Store, p, v)
        IN  /\ roll.st = Store
            /\ Commit(Store, roll) = Store
            /\ \A id \in DOMAIN card_template, m \in Mints :
                  ( /\ Has(player_profile, p)
                    /\ player_profile[p].gacha_tickets >= 1
                    /\ ~Has(card_instance, m)
                    /\ ~Has(token_account, <<p, m>>) )
                  => \E res \in GachaDrawTx(Store, p, id, m, v) :
                        /\ res.err = "Ok"
                        /\ res.st.card_instance[m].card_type_id = id
                        /\ res.st.card_instance[m].owner = p
                        /\ res.st.player_profile[p].gacha_tickets
                               = player_profile[p].gacha_tickets - 1

(* w2 holds a card of the Legendary template 2, paid with one of its ten   *)
(* tickets, in a state where its roll of the value 0 selects the Common    *)
(* card type 1                                                             *)
C35_Witness ==
    /\ last.op = "gacha_draw" /\ last.err = "Ok" /\ last.caller = "w2"
    /\ card_instance[last.mint].owner = "w2"
    /\ card_instance[last.mint].card_type_id = 2
    /\ card_template[2].rarity = "Legendary"
    /\ player_profile["w2"].gacha_tickets = FREE_STARTER_TICKETS - 1
    /\ RollGachaTx(Store, "w2", [hi |-> 0, lo |-> 0]).err = "Ok"
    /\ RollGachaTx(Store, "w2", [hi |-> 0, lo |-> 0]).rarity = "Common"
    /\ RollGachaTx(Store, "w2", [hi |-> 0, lo |-> 0]).card_type_id = 1
    /\ card_template[1].rarity = "Common"

-----------------------------------------------------------------------------
(* Transactions submitted together on one Active listing.  The listing of  *)
(* m2 by w2 is Active, w1 and w3 can pay its price (w3 has the reward of   *)
(* one match).  The transactions in flight are carried in `last`; the      *)
(* runtime executes them one at a time, in any order.                      *)

RaceMint == "m2"
RaceSeller == "w2"
RaceLedger ==
    After(MarketOffered,
          LAMBDA s : RecordMatchResultTx(s, Admin, "w3", "w2", TRUE))

RaceTxs == [op : {"buy_card", "cancel_listing"}, caller : Wallets]

RunRace(s, t) ==
    IF t.op = "buy_card" THEN BuyCardTx(s, t.caller, RaceMint, RaceSeller)
    ELSE CancelListingTx(s, t.caller, RaceMint, <<t.caller, RaceMint>>)

(* the transactions that resolve the listing when they run alone *)
Resolvers == {t \in RaceTxs : RunRace(RaceLedger, t).err = "Ok"}

(* variant: a transaction runs on the state it was submitted in *)
Unlocked(submitted, current) == submitted

(* The listing, the escrow and the profiles are `mut` accounts of both     *)
(* instructions: the runtime write-locks them, so a transaction runs on    *)
(* the state the transactions before it left.                              *)
WriteLocked(submitted, current) == current

RaceInit ==
    /\ InitAccounts(RaceLedger)
    /\ sales = 0
    /\ \E T \in SUBSET RaceTxs :
          /\ Cardinality(T \cap Resolvers) >= 2
          /\ last = [op |-> "none", caller |-> "none", mint |-> RaceMint,
                     card_type_id |-> 0, err |-> "Ok",
                     pending |-> T, committed |-> {}]
    /\ listing_state = [m \in Mints |->
                          IF Has(RaceLedger.listing, m) THEN "Active"
                          ELSE "Unlisted"]

RaceStep(t) ==
    LET res == RunRace(WriteLocked(RaceLedger, Store), t) IN
    /\ t \in last.pending
    /\ last' = [op |-> t.op, caller |-> t.caller, mint |-> RaceMint,
                card_type_id |-> 0, err |-> res.err,
                pending |-> last.pending \ {t},
                committed |-> IF res.err = "Ok"
                              THEN last.committed \cup {t}
                              ELSE last.committed]
    /\ Install(Commit(Store, res))
    /\ sales' = IF res.err = "Ok" /\ t.op = "buy_card" THEN sales + 1
                ELSE sales
    /\ listing_state' = IF res.err # "Ok" THEN listing_state
                        ELSE [listing_state EXCEPT ![RaceMint] =
                                IF t.op = "buy_card" THEN "Sold"
                                ELSE "Cancelled"]

RaceNext == \E t \in RaceTxs : RaceStep(t)

RaceSpec == RaceInit /\ [][RaceNext]_vars

(* the parties that hold the card of RaceMint: wallets and the escrow *)
RaceHolders ==
    {w \in Wallets : /\ Has(token_account, <<w, RaceMint>>)
                     /\ token_account[<<w, RaceMint>>] = 1}
    \cup (IF Has(escrow_token_account, RaceMint)
             /\ escrow_token_account[RaceMint] = 1
          THEN {"escrow"} ELSE {})

RaceBought == {t \in last.committed : t.op = "buy_card"}

(* C36: of two or more transactions that resolve one Active listing (buys  *)
(* by different buyers, the seller's cancel) submitted together, exactly   *)
(* one succeeds in every interleaving; the card ends with exactly one      *)
(* party, the seller is credited at most once, and only the successful     *)
(* buyer is debited.                                                       *)
C36_OneResolution ==
    LET P == RaceLedger.listing[RaceMint].price
        before(w) == RaceLedger.player_profile[w].bug_balance
        now(w) == player_profile[w].bug_balance
    IN  /\ Cardinality(last.committed) <= 1
        /\ last.committed \subseteq Resolvers
        /\ last.pending \cap Resolvers = {} => Cardinality(last.committed) = 1
        /\ last.committed = {} <=> ( /\ Has(listing, RaceMint)
                                     /\ listing[RaceMint].is_active )
        /\ Cardinality(RaceHolders) = 1
        /\ last.committed = {} => RaceHolders = {"escrow"}
        /\ \A t \in last.committed :
              RaceHolders = {IF t.op = "buy_card" THEN t.caller
                             ELSE RaceSeller}
        /\ now(RaceSeller) =
              IF RaceBought = {} THEN before(RaceSeller)
              ELSE before(RaceSeller) + (P - FeeOf(P))
        /\ \A w \in Wallets \ {RaceSeller} :
              now(w) = IF [op |-> "buy_card", caller |-> w] \in last.committed
                       THEN before(w) - P ELSE before(w)

(* both buyers and the seller raced, every transaction has run, and the    *)
(* second buyer w3 got the card: the cancel and the buy of w1 failed        *)
C36_Witness ==
    /\ last.pending = {}
    /\ last.committed = {[op |-> "buy_card", caller |-> "w3"]}
    /\ last.err # "Ok"
    /\ token_account[<<"w3", RaceMint>>] = 1
    /\ ~Has(listing, RaceMint)
    /\ player_profile["w3"].bug_balance = RaceLedger.player_profile["w3"].bug_balance - ListPrice

(* the seller's cancel won the race against two buys *)
C36_WitnessCancel ==
    /\ last.pending = {}
    /\ last.committed = {[op |-> "cancel_listing", caller |-> RaceSeller]}
    /\ last.op = "buy_card" /\ last.err # "Ok"
    /\ token_account[<<RaceSeller, RaceMint>>] = 1
    /\ \A w \in Wallets : player_profile[w].bug_balance
                              = RaceLedger.player_profile[w].bug_balance

-----------------------------------------------------------------------------
(* Spending transactions one player submits together.  On SpendLedger w2   *)
(* has listed m1 and m2 and w3 holds the reward of one match; on           *)
(* DrawLedger no card is drawn yet and w3 has bought one ticket.           *)

Spender == "w3"
CommonPack == [i \in 1 .. STARTER_PACK_CARD_COUNT |-> [hi |-> 0, lo |-> i]]

SpendDrawn ==
    After(After(MarketTickets, LAMBDA s : Drew(s, "w2", "m1")),
          LAMBDA s : Drew(s, "w2", "m2"))
SpendListed ==
    After(After(SpendDrawn,
                LAMBDA s : ListCardTx(s, "w2", "m1", <<"w2", "m1">>, ListPrice)),
          LAMBDA s : ListCardTx(s, "w2", "m2", <<"w2", "m2">>, ListPrice))
SpendLedger ==
    After(SpendListed,
          LAMBDA s : RecordMatchResultTx(s, Admin, Spender, "w1", TRUE))
DrawLedger ==
    After(After(MarketPools,
                LAMBDA s : RecordMatchResultTx(s, Admin, Spender, "w1", TRUE)),
          LAMBDA s : BuyGachaTicketsTx(s, Spender, 1))
SpendLedgers == <<SpendLedger, DrawLedger>>

ManyTickets == 12           \* tickets of the larger purchase (cost 60)
SpendTxs ==
    [op : {"buy_card", "gacha_draw"}, mint : Mints, amount : {0}]
    \cup [op : {"purchase_pack"}, mint : {"none"}, amount : {0}]
    \cup [op : {"buy_gacha_tickets"}, mint : {"none"}, amount : {1, ManyTickets}]

(* the set of results transaction t can have on s *)
RunSpend(s, t) ==
    IF t.op = "buy_card" THEN {BuyCardTx(s, Spender, t.mint, "w2")}
    ELSE IF t.op = "purchase_pack" THEN {PurchasePackTx(s, Spender, CommonPack)}
    ELSE IF t.op = "buy_gacha_tickets"
         THEN {BuyGachaTicketsTx(s, Spender, t.amount)}
    ELSE GachaDrawTx(s, Spender, 1, t.mint, [hi |-> 0, lo |-> 0])

(* what a transaction costs when it commits: currency, tickets *)
SpendCost(t) ==
    IF t.op = "buy_card" THEN ListPrice
    ELSE IF t.op = "purchase_pack" THEN PackPrice
    ELSE IF t.op = "buy_gacha_tickets" THEN TicketPrice * t.amount
    ELSE 0
RECURSIVE TotalCost(_)
TotalCost(T) ==
    IF T = {} THEN 0
    ELSE LET t == CHOOSE x \in T : TRUE
         IN  SpendCost(t) + TotalCost(T \ {t})
RECURSIVE TicketsBought(_)
TicketsBought(T) ==
    IF T = {} THEN 0
    ELSE LET t == CHOOSE x \in T : TRUE
         IN  (IF t.op = "buy_gacha_tickets" THEN t.amount ELSE 0)
             + TicketsBought(T \ {t})
DrawsOf(T) == {t \in T : t.op = "gacha_draw"}

SpendInit ==
    /\ \E k \in 1 .. Len(SpendLedgers), T \in SUBSET SpendTxs :
          /\ InitAccounts(SpendLedgers[k])
          /\ \/ TotalCost(T)
                   > SpendLedgers[k].player_profile[Spender].bug_balance
             \/ /\ Cardinality(DrawsOf(T))
                      > SpendLedgers[k].player_profile[Spender].gacha_tickets
                /\ k = 2
          /\ last = [op |-> "none", caller |-> Spender, mint |-> "none",
                     card_type_id |-> 0, err |-> "Ok", ledger |-> k,
                     submitted |-> T, pending |-> T, committed |-> {}]
          /\ listing_state = [m \in Mints |->
                                IF Has(SpendLedgers[k].listing, m) THEN "Active"
                                ELSE "Unlisted"]
    /\ sales = 0

SpendStep(t) ==
    /\ t \in last.pending
    /\ \E res \in RunSpend(WriteLocked(SpendLedgers[last.ledger], Store), t) :
          /\ last' = [last EXCEPT !.op = t.op, !.mint = t.mint,
                                  !.err = res.err,
                                  !.pending = @ \ {t},
                                  !.committed = IF res.err = "Ok"
                                                THEN @ \cup {t} ELSE @]
          /\ Install(Commit(Store, res))
          /\ sales' = IF res.err = "Ok" /\ t.op = "buy_card" THEN sales + 1
                      ELSE sales
          /\ listing_state' = IF res.err = "Ok" /\ t.op = "buy_card"
                              THEN [listing_state EXCEPT ![t.mint] = "Sold"]
                              ELSE listing_state

SpendNext == \E t \in SpendTxs : SpendStep(t)

SpendSpec == SpendInit /\ [][SpendNext]_vars

(* C37: of the spending transactions one player submits together (buys of  *)
(* different listings, buy_gacha_tickets, purchase_pack) with a total cost *)
(* above its balance, the ones that commit cost at most the starting       *)
(* balance in every interleaving, and the balance is the starting balance  *)
(* minus the cost of exactly the committed ones; gacha_draws submitted     *)
(* together never commit more draws than the tickets held.                 *)
C37_NoDoubleSpend ==
    LET start == SpendLedgers[last.ledger].player_profile[Spender]
        now == player_profile[Spender]
        done == last.committed
        draws == Cardinality(DrawsOf(done))
    IN  /\ TotalCost(done) <= start.bug_balance
        /\ now.bug_balance = start.bug_balance - TotalCost(done)
        /\ draws <= start.gacha_tickets + TicketsBought(done)
        /\ now.gacha_tickets
              = (start.gacha_tickets + TicketsBought(done)) - draws
        /\ TicketsBought(last.submitted) = 0 => draws <= start.gacha_tickets

(* both buys, the pack and the larger ticket purchase were submitted with  *)
(* a balance of 100; every transaction has run, the two buys committed and *)
(* the others were refused                                                 *)
C37_Witness ==
    /\ last.ledger = 1 /\ last.pending = {}
    /\ Cardinality(last.submitted) >= 4
    /\ last.committed = [op : {"buy_card"}, mint : Mints, amount : {0}]
    /\ last.err = "InsufficientBalance"
    /\ player_profile[Spender].bug_balance
          = WIN_REWARD - (ListPrice + ListPrice)

(* two draws were submitted with one ticket: one committed *)
C37_WitnessDraws ==
    /\ last.ledger = 2 /\ last.pending = {}
    /\ last.submitted = [op : {"gacha_draw"}, mint : Mints, amount : {0}]
    /\ Cardinality(last.committed) = 1
    /\ last.err # "Ok"
    /\ player_profile[Spender].gacha_tickets = 0

-----------------------------------------------------------------------------
(* Listings of any token.  list_card takes any mint and any token account  *)
(* of the seller that holds one token of it: the seller needs no profile   *)
(* and the mint no CardInstance.  On ForeignTokens nobody is registered    *)
(* and w1 and w2 each hold a token the token program minted for them.      *)

ForeignTokens ==
    [WithTemplate EXCEPT
        !.token_account = Put(Put(@, <<"w1", "m1">>, 1), <<"w2", "m2">>, 1)]
EscrowLedgers == {ForeignTokens, MarketDrawn}

EscrowInit ==
    /\ \E st \in EscrowLedgers : InitAccounts(st)
    /\ sales = 0
    /\ last = [op |-> "none", caller |-> "none", mint |-> "none",
               card_type_id |-> 0, err |-> "Ok"]
    /\ listing_state = [m \in Mints |-> "Unlisted"]

EscrowNext ==
    \/ \E p \in Wallets : RegisterPlayer(p, Username)
    \/ \E p \in Players : BuyBugTokens(p, ListPrice)
    \/ \E p \in Wallets, m \in Mints, price \in Prices :
          ListCard(p, m, <<p, m>>, price)
    \/ \E p \in Wallets, m \in Mints : CancelListing(p, m, <<p, m>>)
    \/ \E b \in Wallets, m \in Mints, s \in Wallets : BuyCard(b, m, s)

EscrowSpec == EscrowInit /\ [][EscrowNext]_vars

(* C38: no card is locked in the escrow for good: in every reachable state *)
(* with an Active listing a cancel by the recorded seller succeeds and     *)
(* returns the card, whatever the balances are and whether or not the      *)
(* seller has a profile or the card a CardInstance record.                 *)
C38_CancelEnabled ==
    \A m \in DOMAIN listing :
        listing[m].is_active =>
            LET S == listing[m].seller
                res == CancelListingTx(Store, S, m, <<S, m>>)
            IN  /\ res.err = "Ok"
                /\ ~Has(res.st.listing, m)
                /\ ~Has(res.st.escrow_token_account, m)
                /\ res.st.token_account[<<S, m>>] = 1
                /\ res.st.player_profile = player_profile
                /\ res.st.card_instance = card_instance

(* a seller without a profile has cancelled the listing of a card without  *)
(* a CardInstance record, which no buy could have resolved                 *)
C38_Witness ==
    /\ last.op = "cancel_listing" /\ last.err = "Ok"
    /\ ~Has(player_profile, last.caller)
    /\ ~Has(card_instance, last.mint)
    /\ ~Has(listing, last.mint)
    /\ token_account[<<last.caller, last.mint>>] = 1

(* an Active listing no buy can resolve: the seller has no profile, the    *)
(* card has no record, the buyer w2 is registered and funded               *)
C38_WitnessNoBuyer ==
    /\ Has(listing, "m1") /\ listing["m1"].is_active
    /\ listing["m1"].seller = "w1"
    /\ ~Has(player_profile, "w1")
    /\ ~Has(card_instance, "m1")
    /\ Has(player_profile, "w2")
    /\ player_profile["w2"].bug_balance >= listing["m1"].price
    /\ BuyCardTx(Store, "w2", "m1", "w1").err = "AccountNotInitialized"

-----------------------------------------------------------------------------
(* Matches among the operations that write profiles, from the ledgers of   *)
(* MatchSpec and from the ledger on which nobody is registered yet.        *)

StreakStarts == MatchStarts \cup {Initialized}

StreakInit ==
    /\ \E st \in StreakStarts : InitAccounts(st)
    /\ sales = 0
    /\ last = [op |-> "none", caller |-> "none", mint |-> "none",
               card_type_id |-> 0, err |-> "Ok"]
    /\ listing_state = [m \in Mints |-> "Unlisted"]

StreakNext ==
    \/ \E winner \in Wallets, loser \in Wallets, dup_check \in BOOLEAN :
          RecordMatchResult(Admin, winner, loser, dup_check)
    \/ \E p \in Wallets : RegisterPlayer(p, Username)
    \/ ClaimStarterTickets("w3")
    \/ BuyGachaTickets("w2", 1)

StreakSpec == StreakInit /\ [][StreakNext]_vars

(* the profile that lost the match just recorded has streak 0 *)
LoserStreakReset ==
    (last.op = "record_match_result" /\ last.err = "Ok")
        => player_profile[last.loser].win_streak = 0

(* C39: in every reachable state every profile's win streak is at most its *)
(* total wins, and a profile's win streak is 0 immediately after a match   *)
(* it lost; total wins and total losses never decrease under any           *)
(* operation.                                                              *)
C39_StreakAndTotals ==
    /\ [](\A p \in DOMAIN player_profile :
             player_profile[p].win_streak <= player_profile[p].total_wins)
    /\ []LoserStreakReset
    /\ [][\A p \in DOMAIN player_profile :
             /\ Has(player_profile', p)
             /\ player_profile'[p].total_wins >= player_profile[p].total_wins
             /\ player_profile'[p].total_losses
                   >= player_profile[p].total_losses]_vars

(* w2 won twice and then lost: its streak is 0 below its two wins *)
C39_Witness ==
    /\ last.op = "record_match_result" /\ last.err = "Ok"
    /\ last.loser = "w2" /\ last.winner # "w2"
    /\ player_profile["w2"].win_streak = 0
    /\ player_profile["w2"].total_wins = 2
    /\ player_profile["w2"].total_losses = 1

(* one profile was winner and loser of a match: its streak is 0 *)
C39_WitnessSame ==
    /\ last.op = "record_match_result" /\ last.err = "Ok"
    /\ last.loser = last.winner
    /\ player_profile[last.loser].win_streak = 0
    /\ player_profile[last.loser].total_losses > 0

-----------------------------------------------------------------------------
(* What one match adds over all profiles.                                  *)

RECURSIVE SumOfChange(_, _, _)
SumOfChange(before, after, P) ==
    IF P = {} THEN 0
    ELSE LET p == CHOOSE x \in P : TRUE
         IN  (after[p] - before[p]) + SumOfChange(before, after, P \ {p})

(* over a step: the totals of wins and of losses over all profiles each    *)
(* grow by 1 and exactly one profile's balance grows, by the reward        *)
OneWinOneLoss ==
    LET P == DOMAIN player_profile IN
    /\ DOMAIN player_profile' = P
    /\ SumOfChange([p \in P |-> player_profile[p].total_wins],
                   [p \in P |-> player_profile'[p].total_wins], P) = 1
    /\ SumOfChange([p \in P |-> player_profile[p].total_losses],
                   [p \in P |-> player_profile'[p].total_losses], P) = 1
    /\ \E w \in P :
          /\ player_profile'[w].bug_balance
                = player_profile[w].bug_balance + WIN_REWARD
          /\ \A q \in P \ {w} :
                player_profile'[q].bug_balance = player_profile[q].bug_balance

(* C40: every successful record_match_result records exactly one win and   *)
(* one loss: the total wins over all profiles grow by 1, the total losses  *)
(* grow by 1 and exactly one profile receives the reward of 100, also when *)
(* one profile is passed as winner and as loser.                           *)
C40_OneWinOneLoss ==
    [][(last'.op = "record_match_result" /\ last'.err = "Ok")
          => OneWinOneLoss]_vars

(* the same for the matches between two different profiles *)
C40_OneWinOneLossDistinct ==
    [][(last'.op = "record_match_result" /\ last'.err = "Ok"
        /\ last'.winner # last'.loser)
          => OneWinOneLoss]_vars

(* a successful match of w2 against itself on the bootstrap ledger: a loss *)
(* is counted, no win is, and no balance has grown                         *)
C40_Witness ==
    /\ last.op = "record_match_result" /\ last.err = "Ok"
    /\ last.winner = "w2" /\ last.loser = "w2" /\ ~last.dup_check
    /\ sales = 1
    /\ \A p \in DOMAIN player_profile :
          /\ player_profile[p].total_wins = 0
          /\ player_profile[p].bug_balance
                = Bootstrap.player_profile[p].bug_balance
    /\ player_profile["w2"].total_losses = 1

====
